---- MODULE Spec2Model ----
(***************************************************************************)
(* Model of the textype typing tutor: the six practice-sequence            *)
(* generators (generator_algorithms.py), the text renderer and the         *)
(* keystroke validator with its session bookkeeping (main.py).             *)
(*                                                                         *)
(* Three specifications share the module.  SpecGen applies each generator  *)
(* as a pure function to inputs drawn in its initial states, SpecRender    *)
(* does the same for the renderer, and Spec is the TypingTutor application *)
(* as a state machine over key events, timer ticks and pre-fetch steps.    *)
(***************************************************************************)
EXTENDS Integers, Sequences, FiniteSets, TLC

(***************************************************************************)
(* Bounds of the model.                                                    *)
(***************************************************************************)
MaxHand == 3          \* longest hand of a generated row layout
MaxReps == 2          \* largest repetition count given to a generator
MaxCount == 2         \* largest word count given to pseudo_words
MaxPseudoKeys == 2    \* pseudo_words is applied to rows of at most this many keys
MaxPseudoOutputs == 3136  \* and to a row and a count with at most this many possible outputs
MaxShufflePool == 4   \* random.shuffle is enumerated for pools up to this length
MaxRenderLen == 4     \* longest key sequence given to the renderer on its own
LessonReps == 1       \* repetitions per unit in a lesson chunk (the generators' defaults, scaled down)
MaxErrors == 1        \* rejected keystrokes the user makes in one session, at most
MaxChunks == 1        \* chunks the user completes in one session, at most
MaxDrills == 1        \* drill sessions the user runs with one profile, at most
MaxStoredDrills == 2  \* the same for a stored profile in SpecProgress

(***************************************************************************)
(* keyboard.py: physical keys.  PhysicalKey is a plain Enum, so every      *)
(* member is truthy and only None is falsy.                                *)
(***************************************************************************)
KEY_SPACE == "KEY_SPACE"
KEY_ENTER == "KEY_ENTER"
KEY_TAB == "KEY_TAB"
None == "None"

\* None where a profile, or a text or key list, is expected (values of one
\* kind are compared with each other only).
NoProfile == [selected |-> FALSE]
NoText == <<None>>

LeftKeys == {"KEY_A", "KEY_S", "KEY_D"}
RightKeys == {"KEY_J", "KEY_K", "KEY_L"}

\* Ordered hands without repeated keys, as in every row of LAYOUT.
Hands(S) ==
  {s \in UNION {[1..k -> S] : k \in 0..MaxHand} :
     \A i, j \in DOMAIN s : i # j => s[i] # s[j]}

RowLayout == [left : Hands(LeftKeys), right : Hands(RightKeys)]

(***************************************************************************)
(* Python list helpers used by the generators.                             *)
(***************************************************************************)
Min(a, b) == IF a < b THEN a ELSE b
Max(a, b) == IF a > b THEN a ELSE b

\* list[::-1]
Reverse(s) == [i \in 1..Len(s) |-> s[Len(s) + 1 - i]]

\* list * n  (the empty list when n <= 0)
RECURSIVE ListTimes(_, _)
ListTimes(s, n) == IF n <= 0 THEN <<>> ELSE s \o ListTimes(s, n - 1)

\* random.shuffle(pool): every ordering of the pool is a possible outcome.
RECURSIVE Orderings(_)
Orderings(S) ==
  IF S = {} THEN {<<>>}
  ELSE UNION {{<<x>> \o p : p \in Orderings(S \ {x})} : x \in S}

\* Mutation: the pool's places are filled by drawing units with replacement.
random_shuffle_WithReplacement(pool) ==
  [1..Len(pool) -> {pool[i] : i \in DOMAIN pool}]

random_shuffle(pool) ==
  {[i \in 1..Len(pool) |-> pool[p[i]]] : p \in Orderings(1..Len(pool))}

\* pool[:] followed by `if shuffle: random.shuffle(pool)`
MaybeShuffled(pool, shuffle) == IF shuffle THEN random_shuffle(pool) ELSE {pool}

\* for unit in pool: seq.extend(unit); seq.append(KEY_SPACE)
RECURSIVE ExtendWithSpaces(_)
ExtendWithSpaces(pool) ==
  IF pool = <<>> THEN <<>>
  ELSE Head(pool) \o <<KEY_SPACE>> \o ExtendWithSpaces(Tail(pool))

\* Mutation: the trailing boundary is not trimmed.
TrimLast_Untrimmed(seq) == seq

\* return seq[:-1] if seq else []
TrimLast(seq) == IF seq # <<>> THEN SubSeq(seq, 1, Len(seq) - 1) ELSE <<>>

\* A call either returns a list or raises.
Returned(seq) == [err |-> FALSE, seq |-> seq]
Raised == [err |-> TRUE, seq |-> <<>>]

(***************************************************************************)
(* generator_algorithms.py.  Each generator is the set of results the call *)
(* can produce (one result when nothing random is involved).               *)
(***************************************************************************)
single_key_repeat(keys, reps, shuffle) ==
  {Returned(TrimLast(ExtendWithSpaces(
      [i \in 1..Len(pool) |-> ListTimes(<<pool[i]>>, reps)]))) :
     pool \in MaybeShuffled(keys, shuffle)}

HandPairs(hand_keys) ==
  [idx \in 1..(Len(hand_keys) - 1) |-> <<hand_keys[idx], hand_keys[idx + 1]>>]

\* Mutation: the right hand's pairs come first.
AdjacentPairs_RightFirst(row_keys) == HandPairs(row_keys.right) \o HandPairs(row_keys.left)

\* Mutation: the pairs are taken over the row as one flat list of keys.
AdjacentPairs_AcrossHands(row_keys) == HandPairs(row_keys.left \o row_keys.right)

AdjacentPairs(row_keys) == HandPairs(row_keys.left) \o HandPairs(row_keys.right)

same_hand_adjacent(row_keys, reps, shuffle) ==
  {Returned(TrimLast(ExtendWithSpaces(pool))) :
     pool \in MaybeShuffled(ListTimes(AdjacentPairs(row_keys), reps), shuffle)}

\* Mutation: each pair starts with the right hand's key.
ZipPairs_RightFirst(row_keys) ==
  [i \in 1..Min(Len(row_keys.left), Len(row_keys.right)) |->
     <<row_keys.right[i], row_keys.left[i]>>]

\* zip(left, right) stops at the shorter hand
ZipPairs(row_keys) ==
  [i \in 1..Min(Len(row_keys.left), Len(row_keys.right)) |->
     <<row_keys.left[i], row_keys.right[i]>>]

alternating_pairs(row_keys, reps, shuffle) ==
  {Returned(TrimLast(ExtendWithSpaces(pool))) :
     pool \in MaybeShuffled(ListTimes(ZipPairs(row_keys), reps), shuffle)}

\* Mutation: the index check is off by one.
MirrorRaises_OffByOne(row_keys) == Len(row_keys.left) >= Len(row_keys.right)

\* right[-(idx + 1)] for idx in range(len(left)) raises IndexError as soon as
\* idx + 1 > len(right), before anything is returned.
MirrorRaises(row_keys) == Len(row_keys.left) > Len(row_keys.right)

MirrorPairs(row_keys) ==
  [i \in 1..Len(row_keys.left) |->
     <<row_keys.left[i], row_keys.right[Len(row_keys.right) + 1 - i]>>]

mirror_pairs(row_keys, reps, shuffle) ==
  IF MirrorRaises(row_keys) THEN {Raised}
  ELSE {Returned(TrimLast(ExtendWithSpaces(pool))) :
          pool \in MaybeShuffled(ListTimes(MirrorPairs(row_keys), reps), shuffle)}

\* Mutation: a word may be as short as two keys.
WordLengths_FromTwo == {2, 3, 4}

\* Mutation: each hand is rolled outwards right after the other hand.
RollPatterns_HandByHand(row_keys) ==
  <<row_keys.left, row_keys.right, Reverse(row_keys.left), Reverse(row_keys.right)>>

RollPatterns(row_keys) ==
  <<row_keys.left, Reverse(row_keys.left), row_keys.right, Reverse(row_keys.right)>>

rolls(row_keys, reps, shuffle) ==
  {Returned(TrimLast(ExtendWithSpaces(pool))) :
     pool \in MaybeShuffled(ListTimes(RollPatterns(row_keys), reps), shuffle)}

\* random.choices(all_keys, k=length) with length in {3, 4, 5}; it raises
\* IndexError when all_keys is empty.
WordLengths == {3, 4, 5}

Words(all_keys) ==
  UNION {[1..n -> {all_keys[i] : i \in DOMAIN all_keys}] : n \in WordLengths}

RECURSIVE PseudoSeqs(_, _)
PseudoSeqs(all_keys, count) ==
  IF count <= 0 THEN {<<>>}
  ELSE {w \o <<KEY_SPACE>> \o rest :
          w \in Words(all_keys), rest \in PseudoSeqs(all_keys, count - 1)}

pseudo_words(row_keys, count) ==
  LET all_keys == row_keys.left \o row_keys.right IN
  IF count <= 0 THEN {Returned(<<>>)}
  ELSE IF all_keys = <<>> THEN {Raised}
  ELSE {Returned(s) : s \in PseudoSeqs(all_keys, count)}

(***************************************************************************)
(* keyboard.py / xkb_resolver.py: the keys in enumeration order and the    *)
(* layout resolver.  A layout maps <<key, shift>> to the character the key *)
(* produces, or None.  XKB is outside the program, so the layout is one of *)
(* a few representative ones, fixed when the program starts.               *)
(***************************************************************************)
PhysicalKey ==
  <<KEY_TAB, "KEY_A", "KEY_S", "KEY_D", "KEY_J", "KEY_K", "KEY_L", KEY_ENTER, KEY_SPACE>>

PhysicalKeys == {PhysicalKey[i] : i \in DOMAIN PhysicalKey}

Sp == " "
Lf == "\n"
Cr == "\r"
Tab == "\t"

LayoutUS ==
  [kb \in PhysicalKeys \X BOOLEAN |->
     CASE kb[1] = KEY_TAB -> Tab
       [] kb[1] = KEY_ENTER -> Cr
       [] kb[1] = KEY_SPACE -> Sp
       [] kb[1] = "KEY_A" -> IF kb[2] THEN "A" ELSE "a"
       [] kb[1] = "KEY_S" -> IF kb[2] THEN "S" ELSE "s"
       [] kb[1] = "KEY_D" -> IF kb[2] THEN "D" ELSE "d"
       [] kb[1] = "KEY_J" -> IF kb[2] THEN "J" ELSE "j"
       [] kb[1] = "KEY_K" -> IF kb[2] THEN "K" ELSE "k"
       [] kb[1] = "KEY_L" -> IF kb[2] THEN "L" ELSE "l"]

\* KEY_A has no shifted level.
LayoutNoShift == [LayoutUS EXCEPT ![<<"KEY_A", TRUE>>] = None]

\* KEY_S produces the same unshifted character as KEY_A.
LayoutDup == [LayoutUS EXCEPT ![<<"KEY_S", FALSE>>] = "a"]

\* KEY_A and the space key have no symbol at all (XKB_KEY_NoSymbol).
LayoutHole ==
  [LayoutUS EXCEPT ![<<"KEY_A", FALSE>>] = None, ![<<"KEY_A", TRUE>>] = None,
                   ![<<KEY_SPACE, FALSE>>] = None, ![<<KEY_SPACE, TRUE>>] = None]

Layouts == {LayoutUS, LayoutNoShift, LayoutDup, LayoutHole}

ShiftModes == {"off", "mixed", "always"}

(***************************************************************************)
(* main.py: the text renderer.                                             *)
(***************************************************************************)
\* _should_use_shift: the values the call can return.
_should_use_shift(shift_mode) ==
  IF shift_mode = "always" THEN {TRUE}
  ELSE IF shift_mode = "mixed" THEN {TRUE, FALSE}
  ELSE {FALSE}

\* Mutation: no fallback to the unshifted level.
_resolve_key_character_NoFallback(layout, key, use_shift) == layout[<<key, use_shift>>]

_resolve_key_character(layout, key, use_shift) ==
  LET char == layout[<<key, use_shift>>] IN
  IF char = None /\ use_shift THEN layout[<<key, FALSE>>] ELSE char

\* What one key appends to `rendered`: a one-character string, or "" for None.
Emitted(layout, key, shift_mode) ==
  IF key = KEY_SPACE THEN {<<Sp>>}
  ELSE {LET char == _resolve_key_character(layout, key, use_shift)
        IN IF char = None THEN <<>> ELSE <<char>> :
          use_shift \in _should_use_shift(shift_mode)}

\* The lists `rendered` the loop can build.
RECURSIVE RenderedLists(_, _, _)
RenderedLists(layout, physical_keys, shift_mode) ==
  IF physical_keys = <<>> THEN {<<>>}
  ELSE {<<e>> \o rest :
          e \in Emitted(layout, Head(physical_keys), shift_mode),
          rest \in RenderedLists(layout, Tail(physical_keys), shift_mode)}

\* "".join(rendered)
RECURSIVE Join(_)
Join(rendered) == IF rendered = <<>> THEN <<>> ELSE Head(rendered) \o Join(Tail(rendered))

_render_keys_to_text(layout, physical_keys, shift_mode) ==
  {Join(rendered) : rendered \in RenderedLists(layout, physical_keys, shift_mode)}

(***************************************************************************)
(* The application, scaled down: one two-key row, two lessons, a few       *)
(* candidate sentences and snippets, and the keys a user can press.        *)
(***************************************************************************)
LAYOUT == [home |-> [left |-> <<"KEY_A">>, right |-> <<"KEY_J">>]]

\* A drill of a few keystrokes never reaches a positive words-per-minute
\* target within DRILL_DURATION, so only the second lesson asks for one (and is
\* never cleared); the targets are the curriculum's.  The third descriptor names a row that LAYOUT
\* does not hold and the fourth carries no "row" entry at all (row |-> None).
LESSONS ==
  <<[algo |-> "repeat", row |-> "home", target_acc |-> 95, target_wpm |-> 0,
     shift_mode |-> "off"],
    [algo |-> "sentence", row |-> "home", target_acc |-> 95, target_wpm |-> 10,
     shift_mode |-> "off"],
    [algo |-> "repeat", row |-> "keypad", target_acc |-> 95, target_wpm |-> 0,
     shift_mode |-> "off"],
    [algo |-> "repeat", row |-> None, target_acc |-> 95, target_wpm |-> 0,
     shift_mode |-> "off"]>>

\* Strings a sentence source or a snippet source can hand over; an API answer
\* without text and a command without output are the empty string.
SENTENCES == {<<>>, <<"r", Cr>>}
SNIPPETS == {<<Lf, Tab>>}

PracticeModes == {"curriculum", "sentences", "code"}

\* Values a profile's configuration gives DRILL_DURATION (seconds) and
\* SHUFFLE_AFTER (chunks); both are per-profile settings.
DrillDurations == {300}
ShuffleAfterValues == {1}

\* event.key of the key events; the printable ones carry themselves as
\* event.character.  No modelled key produces "r" under any layout.
PrintableKeys == {"a", "s", "j", "r"}
EventKeys == {"backspace", "space", "enter", "tab", "escape"} \cup PrintableKeys

Chars ==
  {Sp, Lf, Cr, Tab} \cup PrintableKeys
    \cup {LayoutUS[kb] : kb \in DOMAIN LayoutUS}

\* _build_char_to_physical_map: keys in enumeration order, the unshifted
\* character first, then the shifted one; a later key overwrites an earlier.
RECURSIVE BuildCharMap(_, _, _)
BuildCharMap(layout, i, char_map) ==
  IF i > Len(PhysicalKey) THEN char_map
  ELSE LET key == PhysicalKey[i]
           char == layout[<<key, FALSE>>]
           char_shifted == layout[<<key, TRUE>>]
           m1 == IF char # None THEN [char_map EXCEPT ![char] = key] ELSE char_map
           m2 == IF char_shifted # None THEN [m1 EXCEPT ![char_shifted] = key] ELSE m1
       IN BuildCharMap(layout, i + 1, m2)

\* Mutation: only the unshifted level is entered in the map.
_build_char_to_physical_map_Unshifted(layout) ==
  [c \in Chars |->
     IF \E key \in PhysicalKeys : layout[<<key, FALSE>>] = c
     THEN CHOOSE key \in PhysicalKeys : layout[<<key, FALSE>>] = c
     ELSE None]

_build_char_to_physical_map(layout) ==
  BuildCharMap(layout, 1, [c \in Chars |-> None])

_char_to_physical_key(char_map, char) ==
  IF char = Sp THEN KEY_SPACE
  ELSE IF char = Lf THEN KEY_ENTER
  ELSE IF char = Tab THEN KEY_TAB
  ELSE IF char = Cr THEN KEY_ENTER
  ELSE IF char_map[char] # None THEN char_map[char]
  ELSE KEY_SPACE

_sentence_to_physical_keys(char_map, sentence) ==
  [i \in 1..Len(sentence) |-> _char_to_physical_key(char_map, sentence[i])]

\* Python's round() of the rational a / b (b > 0): to nearest, ties to even.
Round(a, b) ==
  LET q == a \div b
      r == a % b
  IN IF 2 * r < b THEN q
     ELSE IF 2 * r > b THEN q + 1
     ELSE IF q % 2 = 0 THEN q ELSE q + 1

(***************************************************************************)
(* State.                                                                  *)
(***************************************************************************)
VARIABLES
  gen_row,      \* the row layout given to the generator
  gen_reps,     \* the repetition count given to the generator
  gen_count,    \* the word count given to pseudo_words
  gen_call,     \* the generator applied ("none" before the call) and its shuffle flag
  gen_ret,      \* what the call returned
  resolver,     \* the keyboard layout behind XKBResolver
  ren_keys,     \* the key sequence given to the renderer
  ren_mode,     \* the shift mode given to the renderer
  ren_rendered, \* the list `rendered` built by the renderer (None before the call)
  ren_text,     \* the string the renderer returned
  target_text, typed_text, target_keys,
  session_start_time,      \* None, or "started" once the session timer runs
  session_active,
  cumulative_typed_chars, cumulative_errors, current_chunk_errors, chunks_completed,
  profile,                 \* None, or the selected profile's record
  last_drill_passed, previous_lesson_index,
  prefetch_task,           \* _prefetch_task: None, "pending", "awaiting" or "done"
  task_mode,               \* practice_mode as read by the running pre-fetch task
  prefetched_text, prefetched_keys, prefetched_mode,
  char_to_physical,
  crashed,                 \* a handler raised: the application has stopped
  sen_config,   \* the configuration generate_sentence reads
  sen_world,    \* what the API, the command and the sentences file answer
  sen_called,   \* generate_sentence has been called
  sen_ret       \* what generate_sentence returned

genVars == <<gen_row, gen_reps, gen_count, gen_call, gen_ret>>

renVars == <<ren_keys, ren_mode, ren_rendered, ren_text>>

appVars ==
  <<target_text, typed_text, target_keys, session_start_time, session_active,
    cumulative_typed_chars, cumulative_errors, current_chunk_errors, chunks_completed,
    profile, last_drill_passed, previous_lesson_index, prefetch_task, task_mode,
    prefetched_text, prefetched_keys, prefetched_mode, char_to_physical, crashed>>

senVars == <<sen_config, sen_world, sen_called, sen_ret>>

vars == <<genVars, resolver, renVars, appVars, senVars>>

\* generate_sentence's variables while it is not the subject: config.py's
\* defaults, every source down.
SenIdle ==
  /\ sen_config = [SENTENCE_SOURCE |-> "api", CODE_COMMAND |-> "",
                   SENTENCES_FILE |-> "sentences.txt"]
  /\ sen_world = [request |-> [status |-> 0, text |-> <<>>, author |-> <<>>],
                  command |-> [ok |-> FALSE, output |-> <<>>],
                  file |-> [exists |-> FALSE, readable |-> FALSE, content |-> <<>>]]
  /\ sen_called = FALSE
  /\ sen_ret = [err |-> FALSE, seq |-> <<>>]

\* The renderer's variables while the renderer is not the subject.
RenIdle ==
  /\ ren_keys = <<>>
  /\ ren_mode = "off"
  /\ ren_rendered = None
  /\ ren_text = <<>>

\* TypingTutor.__init__ (the reverse map is built there, from the layout).
Constructed ==
  /\ target_text = <<>>
  /\ typed_text = <<>>
  /\ target_keys = <<>>
  /\ session_start_time = None
  /\ session_active = FALSE
  /\ cumulative_typed_chars = 0
  /\ cumulative_errors = 0
  /\ current_chunk_errors = 0
  /\ chunks_completed = 0
  /\ profile = NoProfile
  /\ last_drill_passed = FALSE
  /\ previous_lesson_index = 0
  /\ prefetch_task = None
  /\ task_mode = None
  /\ prefetched_text = NoText
  /\ prefetched_keys = NoText
  /\ prefetched_mode = None
  /\ char_to_physical = _build_char_to_physical_map(resolver)
  /\ crashed = FALSE

\* The generators' variables while the generators are not the subject.
GenIdle ==
  /\ gen_row = [left |-> <<>>, right |-> <<>>]
  /\ gen_reps = 0
  /\ gen_count = 0
  /\ gen_call = [algo |-> "none", shuffle |-> FALSE]
  /\ gen_ret = Returned(<<>>)

NotCalled == [algo |-> "none", shuffle |-> FALSE]

(***************************************************************************)
(* SpecGen: the generators applied to bounded inputs.                      *)
(***************************************************************************)
InitGen ==
  /\ gen_row \in RowLayout
  /\ gen_reps \in 0..MaxReps
  /\ gen_count \in 0..MaxCount
  /\ gen_call = NotCalled
  /\ gen_ret = Returned(<<>>)
  /\ resolver = LayoutUS
  /\ RenIdle
  /\ Constructed
  /\ SenIdle

\* Number of units the generator hands to random.shuffle.
PoolLen(algo) ==
  CASE algo = "repeat" -> Len(gen_row.left) + Len(gen_row.right)
    [] algo = "adjacent" -> Len(AdjacentPairs(gen_row)) * gen_reps
    [] algo = "alternating" -> Len(ZipPairs(gen_row)) * gen_reps
    [] algo = "mirror" -> Len(gen_row.left) * gen_reps
    [] algo = "rolls" -> 4 * gen_reps

Apply(algo, results) ==
  /\ gen_call = NotCalled
  /\ \E shuffle \in BOOLEAN :
       /\ shuffle => PoolLen(algo) <= MaxShufflePool
       /\ \E r \in results[shuffle] :
            /\ gen_call' = [algo |-> algo, shuffle |-> shuffle]
            /\ gen_ret' = r
  /\ UNCHANGED <<gen_row, gen_reps, gen_count, resolver, renVars, appVars, senVars>>

CallSingleKeyRepeat ==
  Apply("repeat",
        [s \in BOOLEAN |-> single_key_repeat(gen_row.left \o gen_row.right, gen_reps, s)])

CallSameHandAdjacent ==
  Apply("adjacent", [s \in BOOLEAN |-> same_hand_adjacent(gen_row, gen_reps, s)])

CallAlternatingPairs ==
  Apply("alternating", [s \in BOOLEAN |-> alternating_pairs(gen_row, gen_reps, s)])

CallMirrorPairs ==
  Apply("mirror", [s \in BOOLEAN |-> mirror_pairs(gen_row, gen_reps, s)])

CallRolls ==
  Apply("rolls", [s \in BOOLEAN |-> rolls(gen_row, gen_reps, s)])

\* How many sequences random.choice and random.choices can make of count words
\* over n keys.
PseudoOutputs(n, count) ==
  IF count <= 0 \/ n = 0 THEN 1 ELSE (n^3 + n^4 + n^5)^count

CallPseudoWords ==
  /\ gen_call = NotCalled
  /\ Len(gen_row.left) + Len(gen_row.right) <= MaxPseudoKeys
  /\ PseudoOutputs(Len(gen_row.left) + Len(gen_row.right), gen_count) <= MaxPseudoOutputs
  /\ \E r \in pseudo_words(gen_row, gen_count) :
       /\ gen_call' = [algo |-> "pseudo", shuffle |-> FALSE]
       /\ gen_ret' = r
  /\ UNCHANGED <<gen_row, gen_reps, gen_count, resolver, renVars, appVars, senVars>>

NextGen ==
  \/ CallSingleKeyRepeat
  \/ CallSameHandAdjacent
  \/ CallAlternatingPairs
  \/ CallMirrorPairs
  \/ CallRolls
  \/ CallPseudoWords

SpecGen == InitGen /\ [][NextGen]_vars

(***************************************************************************)
(* SpecRender: the renderer applied to generator outputs, under each       *)
(* layout and shift mode.                                                  *)
(***************************************************************************)
\* What the six generators return, unshuffled, on the bounded rows.
\* The word counts whose output can be short enough for the renderer's bound:
\* every word is at least three keys and its KEY_SPACE.
RenderableCounts == {count \in 0..MaxCount : 4 * count <= MaxRenderLen}

GeneratorOutputs ==
  {r.seq : r \in {r \in
     UNION {single_key_repeat(row.left \o row.right, reps, FALSE)
              \cup same_hand_adjacent(row, reps, FALSE)
              \cup alternating_pairs(row, reps, FALSE)
              \cup mirror_pairs(row, reps, FALSE)
              \cup rolls(row, reps, FALSE)
              \cup (IF Len(row.left) + Len(row.right) <= MaxPseudoKeys
                    THEN UNION {pseudo_words(row, count) : count \in RenderableCounts}
                    ELSE {}) :
            row \in RowLayout, reps \in 0..MaxReps} : ~r.err}}

InitRender ==
  /\ resolver \in Layouts
  /\ ren_mode \in ShiftModes
  /\ ren_keys \in {S \in GeneratorOutputs : Len(S) <= MaxRenderLen}
  /\ ren_rendered = None
  /\ ren_text = <<>>
  /\ GenIdle
  /\ Constructed
  /\ SenIdle

RenderKeysToText ==
  /\ ren_rendered = None
  /\ \E rendered \in RenderedLists(resolver, ren_keys, ren_mode) :
       /\ ren_rendered' = rendered
       /\ ren_text' = Join(rendered)
  /\ UNCHANGED <<genVars, resolver, ren_keys, ren_mode, appVars, senVars>>

NextRender == RenderKeysToText

SpecRender == InitRender /\ [][NextRender]_vars

(***************************************************************************)
(* text_normalizer.py and sentence_generator.py.  A text is a sequence of  *)
(* characters; "emdash", "zwsp" and "eacute" stand for U+2014, U+200B and  *)
(* U+00E9.                                                                 *)
(***************************************************************************)
\* The translation table, then NFKD with the combining marks removed.
replacements(c) ==
  CASE c = "emdash" -> <<"-", "-">>
    [] c = "zwsp" -> <<>>
    [] c = "eacute" -> <<"e">>
    [] OTHER -> <<c>>

RECURSIVE normalize_text(_)
normalize_text(text) ==
  IF text = <<>> THEN <<>>
  ELSE replacements(Head(text)) \o normalize_text(Tail(text))

Whitespace == {" ", Lf, Cr, Tab}

RECURSIVE lstrip(_)
lstrip(text) ==
  IF text # <<>> /\ Head(text) \in Whitespace THEN lstrip(Tail(text)) ELSE text

RECURSIVE rstrip(_)
rstrip(text) ==
  IF text # <<>> /\ text[Len(text)] \in Whitespace
  THEN rstrip(SubSeq(text, 1, Len(text) - 1))
  ELSE text

\* str.strip()
strip(text) == rstrip(lstrip(text))

\* `import requests` at the top of the module is unconditional.
HAS_REQUESTS == TRUE

\* The text and the author of an API answer, as generate_sentence joins them.
ApiResult(response) ==
  IF response.author # <<>> THEN response.text \o <<Lf>> \o response.author
  ELSE response.text

\* lines = [line.strip() for line in f if line.strip()]
FileLines(content) ==
  {strip(content[i]) : i \in {j \in 1..Len(content) : strip(content[j]) # <<>>}}

\* Path("") is the current directory, which exists; open("") raises.
PathExists(name, world) == name = "" \/ world.file.exists
Openable(name, world) == name # "" /\ world.file.readable

\* return normalize_text(random.choice(SENTENCES))
FromLocal == {Returned(normalize_text(sentence)) : sentence \in SENTENCES}

\* The sentences file, read for source "file" and, when a file is configured,
\* for source "api" too.
FromFile(cfg, world) ==
  IF cfg.SENTENCE_SOURCE = "file"
     \/ (cfg.SENTENCE_SOURCE = "api" /\ cfg.SENTENCES_FILE # "")
  THEN IF PathExists(cfg.SENTENCES_FILE, world)
       THEN IF ~Openable(cfg.SENTENCES_FILE, world) THEN {Raised}
            ELSE IF FileLines(world.file.content) # {}
                 THEN {Returned(normalize_text(line)) :
                         line \in FileLines(world.file.content)}
                 ELSE FromLocal
       ELSE FromLocal
  ELSE FromLocal

\* generate_sentence: the set of results the call can produce.  A request or
\* a command that raises is caught (status 0, ok FALSE) and falls through.
generate_sentence(cfg, world) ==
  IF cfg.SENTENCE_SOURCE = "api" /\ HAS_REQUESTS /\ world.request.status = 200
  THEN {Returned(normalize_text(ApiResult(world.request)))}
  ELSE IF cfg.SENTENCE_SOURCE = "cmd" /\ cfg.CODE_COMMAND # "" /\ world.command.ok
  THEN {Returned(normalize_text(strip(world.command.output)))}
  ELSE IF cfg.SENTENCE_SOURCE = "ai" /\ HAS_REQUESTS /\ world.request.status = 200
  THEN {Returned(normalize_text(strip(world.request.text)))}
  ELSE FromFile(cfg, world)

(***************************************************************************)
(* SpecSentence: generate_sentence applied to every configuration and      *)
(* every answer of its sources.                                            *)
(***************************************************************************)
SentenceConfigs ==
  [SENTENCE_SOURCE : {"api", "cmd", "ai", "file", "local"},
   CODE_COMMAND : {"", "fortune"},
   SENTENCES_FILE : {"", "sentences.txt"}]

\* Status 0: the request raised.
Responses ==
  {[status |-> 0, text |-> <<>>, author |-> <<>>],
   [status |-> 500, text |-> <<>>, author |-> <<>>],
   [status |-> 200, text |-> <<>>, author |-> <<>>],
   [status |-> 200, text |-> <<"q", "emdash", " ">>, author |-> <<"eacute">>]}

CommandOutcomes ==
  {[ok |-> FALSE, output |-> <<>>],
   [ok |-> TRUE, output |-> <<"q", "zwsp", Lf>>]}

SentenceFiles ==
  {[exists |-> FALSE, readable |-> FALSE, content |-> <<>>],
   [exists |-> TRUE, readable |-> FALSE, content |-> <<>>],
   [exists |-> TRUE, readable |-> TRUE, content |-> <<>>],
   [exists |-> TRUE, readable |-> TRUE, content |-> << <<" ", Lf>> >>],
   [exists |-> TRUE, readable |-> TRUE, content |-> << <<"q", Lf>>, <<Lf>> >>]}

InitSentence ==
  /\ sen_config \in SentenceConfigs
  /\ sen_world \in [request : Responses, command : CommandOutcomes, file : SentenceFiles]
  /\ sen_called = FALSE
  /\ sen_ret = Returned(<<>>)
  /\ resolver = LayoutUS
  /\ GenIdle
  /\ RenIdle
  /\ Constructed

CallGenerateSentence ==
  /\ ~sen_called
  /\ sen_called' = TRUE
  /\ sen_ret' \in generate_sentence(sen_config, sen_world)
  /\ UNCHANGED <<genVars, resolver, renVars, appVars, sen_config, sen_world>>

NextSentence == CallGenerateSentence

SpecSentence == InitSentence /\ [][NextSentence]_vars

(***************************************************************************)
(* Spec: the TypingTutor application (main.py).  A handler runs to its end *)
(* in one step; it is written as a function from the application's        *)
(* attributes, held in a record, to the set of records it can leave.       *)
(***************************************************************************)
Self ==
  [target_text |-> target_text, typed_text |-> typed_text, target_keys |-> target_keys,
   session_start_time |-> session_start_time, session_active |-> session_active,
   cumulative_typed_chars |-> cumulative_typed_chars,
   cumulative_errors |-> cumulative_errors,
   current_chunk_errors |-> current_chunk_errors,
   chunks_completed |-> chunks_completed, profile |-> profile,
   last_drill_passed |-> last_drill_passed,
   previous_lesson_index |-> previous_lesson_index,
   prefetch_task |-> prefetch_task, task_mode |-> task_mode,
   prefetched_text |-> prefetched_text, prefetched_keys |-> prefetched_keys,
   prefetched_mode |-> prefetched_mode, char_to_physical |-> char_to_physical,
   crashed |-> crashed]

\* The attributes after the handler.
Becomes(s) ==
  /\ target_text' = s.target_text
  /\ typed_text' = s.typed_text
  /\ target_keys' = s.target_keys
  /\ session_start_time' = s.session_start_time
  /\ session_active' = s.session_active
  /\ cumulative_typed_chars' = s.cumulative_typed_chars
  /\ cumulative_errors' = s.cumulative_errors
  /\ current_chunk_errors' = s.current_chunk_errors
  /\ chunks_completed' = s.chunks_completed
  /\ profile' = s.profile
  /\ last_drill_passed' = s.last_drill_passed
  /\ previous_lesson_index' = s.previous_lesson_index
  /\ prefetch_task' = s.prefetch_task
  /\ task_mode' = s.task_mode
  /\ prefetched_text' = s.prefetched_text
  /\ prefetched_keys' = s.prefetched_keys
  /\ prefetched_mode' = s.prefetched_mode
  /\ char_to_physical' = s.char_to_physical
  /\ crashed' = s.crashed

\* Statement sequencing: F runs on every outcome of S in which nothing raised.
Then(S, F(_)) == UNION {IF s.crashed THEN {s} ELSE F(s) : s \in S}

Raise(s) == [s EXCEPT !.crashed = TRUE]

\* self.profile.config_overrides.get("PRACTICE_MODE", "curriculum")
PracticeMode(s) == s.profile.PRACTICE_MODE

\* self._get_config(key), with a profile selected
_get_config(s, key) ==
  CASE key = "HARD_MODE" -> s.profile.HARD_MODE
    [] key = "DRILL_DURATION" -> s.profile.DRILL_DURATION
    [] key = "SHUFFLE_AFTER" -> s.profile.SHUFFLE_AFTER

\* refresh_display changes widgets only, but _highlight_shift_if_needed reads
\* target_text[len(typed_text)] whenever len(typed_text) < len(target_keys),
\* and raises IndexError when target_text is too short for that.
refresh_display(s) ==
  IF Len(s.typed_text) < Len(s.target_keys) /\ Len(s.typed_text) >= Len(s.target_text)
  THEN Raise(s)
  ELSE s

\* Mutation: the pre-fetched keys outlive the cancellation.
_cancel_prefetch_KeepsKeys(s) ==
  [s EXCEPT !.prefetch_task = IF @ \in {"pending", "awaiting"} THEN None ELSE @,
            !.task_mode = IF s.prefetch_task \in {"pending", "awaiting"} THEN None ELSE @,
            !.prefetched_text = NoText,
            !.prefetched_mode = None]

_cancel_prefetch(s) ==
  [s EXCEPT !.prefetch_task = IF @ \in {"pending", "awaiting"} THEN None ELSE @,
            !.task_mode = IF s.prefetch_task \in {"pending", "awaiting"} THEN None ELSE @,
            !.prefetched_text = NoText,
            !.prefetched_keys = NoText,
            !.prefetched_mode = None]

_start_prefetching(s) ==
  IF s.profile = NoProfile THEN s
  ELSE [_cancel_prefetch(s) EXCEPT !.prefetch_task = "pending", !.task_mode = None]

\* Mutation: shuffling starts one chunk late.
_generate_physical_keys_ShufflesLater(s, algo_type, row_key) ==
  LET should_shuffle == s.chunks_completed > _get_config(s, "SHUFFLE_AFTER") IN
  IF row_key \notin DOMAIN LAYOUT THEN {Raised}
  ELSE LET row_data == LAYOUT[row_key] IN
    CASE algo_type = "repeat" ->
           single_key_repeat(row_data.left \o row_data.right, LessonReps, should_shuffle)
      [] algo_type = "adjacent" -> same_hand_adjacent(row_data, LessonReps, should_shuffle)
      [] algo_type = "alternating" -> alternating_pairs(row_data, LessonReps, should_shuffle)
      [] algo_type = "mirror" -> mirror_pairs(row_data, LessonReps, should_shuffle)
      [] algo_type = "rolls" -> rolls(row_data, LessonReps, should_shuffle)
      [] algo_type = "pseudo" -> pseudo_words(row_data, LessonReps)

\* _generate_physical_keys: the generator of the lesson's algorithm (LESSONS
\* names no algorithm outside the table); row_data is None for an unknown row,
\* and subscripting it raises.
_generate_physical_keys(s, algo_type, row_key) ==
  LET should_shuffle == s.chunks_completed >= _get_config(s, "SHUFFLE_AFTER") IN
  IF row_key \notin DOMAIN LAYOUT THEN {Raised}
  ELSE LET row_data == LAYOUT[row_key] IN
    CASE algo_type = "repeat" ->
           single_key_repeat(row_data.left \o row_data.right, LessonReps, should_shuffle)
      [] algo_type = "adjacent" -> same_hand_adjacent(row_data, LessonReps, should_shuffle)
      [] algo_type = "alternating" -> alternating_pairs(row_data, LessonReps, should_shuffle)
      [] algo_type = "mirror" -> mirror_pairs(row_data, LessonReps, should_shuffle)
      [] algo_type = "rolls" -> rolls(row_data, LessonReps, should_shuffle)
      [] algo_type = "pseudo" -> pseudo_words(row_data, LessonReps)

\* _generate_sentence_text and the sentence branches of _get_practice_text
SentenceText(s, candidates) ==
  {[s EXCEPT !.target_keys = _sentence_to_physical_keys(s.char_to_physical, sentence),
             !.target_text = sentence] : sentence \in candidates}

\* generate_lesson_text, with the caller's assignment to target_text
\* lesson.get("row", "home")
LessonRow(lesson) == IF lesson.row = None THEN "home" ELSE lesson.row

generate_lesson_text(s) ==
  LET lesson == LESSONS[s.profile.current_lesson_index + 1] IN
  IF lesson.algo = "sentence" THEN SentenceText(s, SENTENCES)
  ELSE UNION {IF r.err THEN {Raise(s)}
              ELSE {[s EXCEPT !.target_keys = r.seq, !.target_text = text] :
                      text \in _render_keys_to_text(resolver, r.seq, lesson.shift_mode)} :
                r \in _generate_physical_keys(s, lesson.algo, LessonRow(lesson))}

\* self.target_text = self._get_practice_text()
_get_practice_text(s) ==
  IF s.profile # NoProfile /\ s.prefetched_text # NoText /\ s.prefetched_mode = PracticeMode(s)
  THEN {_start_prefetching([s EXCEPT !.prefetched_text = NoText,
                                     !.prefetched_keys = NoText,
                                     !.prefetched_mode = None,
                                     !.target_keys = s.prefetched_keys,
                                     !.target_text = s.prefetched_text])}
  ELSE IF s.profile = NoProfile THEN SentenceText(s, SENTENCES)
  ELSE IF PracticeMode(s) = "sentences"
       THEN {_start_prefetching(t) : t \in SentenceText(s, SENTENCES)}
  ELSE IF PracticeMode(s) = "code"
       THEN {_start_prefetching(t) : t \in SentenceText(s, SNIPPETS)}
  ELSE generate_lesson_text(s)

start_new_session(s) ==
  Then(_get_practice_text([s EXCEPT !.session_active = TRUE,
                                    !.session_start_time = None,
                                    !.cumulative_typed_chars = 0,
                                    !.cumulative_errors = 0,
                                    !.current_chunk_errors = 0,
                                    !.chunks_completed = 0]),
       LAMBDA t : {refresh_display([t EXCEPT !.typed_text = <<>>])})

repeat_lesson(s) ==
  start_new_session(
    IF s.profile # NoProfile /\ s.profile.current_lesson_index > s.previous_lesson_index
    THEN [s EXCEPT !.profile.current_lesson_index = s.previous_lesson_index]
    ELSE s)

\* Mutation: the typed buffer is not emptied for the next chunk.
load_next_chunk_KeepsTyped(s) ==
  Then(_get_practice_text([s EXCEPT !.cumulative_typed_chars = @ + Len(s.typed_text),
                                    !.cumulative_errors = @ + s.current_chunk_errors,
                                    !.chunks_completed = @ + 1]),
       LAMBDA t : {refresh_display([t EXCEPT !.current_chunk_errors = 0])})

load_next_chunk(s) ==
  Then(_get_practice_text([s EXCEPT !.cumulative_typed_chars = @ + Len(s.typed_text),
                                    !.cumulative_errors = @ + s.current_chunk_errors,
                                    !.chunks_completed = @ + 1]),
       LAMBDA t : {refresh_display([t EXCEPT !.typed_text = <<>>,
                                             !.current_chunk_errors = 0])})

check_chunk_completion(s) ==
  IF Len(s.typed_text) = Len(s.target_text) /\ s.session_active
  THEN load_next_chunk(s)
  ELSE {s}

\* _calculate_final_statistics
FinalWpm(s) == Round(s.cumulative_typed_chars * 60, 5 * _get_config(s, "DRILL_DURATION"))

FinalAcc(s) ==
  Round((s.cumulative_typed_chars - s.cumulative_errors) * 100,
        Max(1, s.cumulative_typed_chars + s.cumulative_errors))

\* _evaluate_drill_performance
DrillPassed(s) ==
  IF s.profile = NoProfile THEN FALSE
  ELSE IF PracticeMode(s) = "curriculum"
  THEN LET lesson == LESSONS[s.profile.current_lesson_index + 1] IN
       FinalAcc(s) >= lesson.target_acc /\ FinalWpm(s) >= lesson.target_wpm
  ELSE TRUE

_evaluate_drill_performance(s) ==
  IF s.profile = NoProfile THEN s
  ELSE IF PracticeMode(s) = "curriculum"
  THEN [s EXCEPT !.previous_lesson_index = s.profile.current_lesson_index,
                 !.last_drill_passed = DrillPassed(s)]
  ELSE [s EXCEPT !.last_drill_passed = TRUE]

\* Mutation: every evaluated drill advances the lesson.
_update_user_progress_AlwaysAdvance(s, wpm, passed) ==
  IF s.profile = NoProfile THEN s
  ELSE [s EXCEPT
          !.profile.current_lesson_index =
             IF @ + 1 >= Len(LESSONS) THEN Len(LESSONS) - 1 ELSE @ + 1,
          !.profile.wpm_record = IF wpm > @ THEN wpm ELSE @,
          !.profile.total_drills = @ + 1]

_update_user_progress(s, wpm, passed) ==
  IF s.profile = NoProfile THEN s
  ELSE [s EXCEPT
          !.profile.current_lesson_index =
             IF passed /\ PracticeMode(s) = "curriculum"
             THEN (IF @ + 1 >= Len(LESSONS) THEN Len(LESSONS) - 1 ELSE @ + 1)
             ELSE @,
          !.profile.wpm_record = IF wpm > @ THEN wpm ELSE @,
          !.profile.total_drills = @ + 1]

\* Mutation: the session is left active when the drill is evaluated.
end_drill_session_StaysActive(s) ==
  LET s1 == [s EXCEPT !.cumulative_typed_chars = @ + Len(s.typed_text),
                      !.cumulative_errors = @ + s.current_chunk_errors]
  IN _update_user_progress(_evaluate_drill_performance(s1), FinalWpm(s1), DrillPassed(s1))

\* end_drill_session with evaluate_drill_and_show_stats (with SHOW_STATS_ON_END
\* off the outcome is written to the typing area; no attribute changes there)
end_drill_session(s) ==
  LET s1 == [s EXCEPT !.session_active = FALSE,
                      !.cumulative_typed_chars = @ + Len(s.typed_text),
                      !.cumulative_errors = @ + s.current_chunk_errors]
  IN _update_user_progress(_evaluate_drill_performance(s1), FinalWpm(s1), DrillPassed(s1))

\* _reset_for_mode_change (the source runs the reset block twice)
ResetBlock(s) ==
  _get_practice_text([_cancel_prefetch(s) EXCEPT !.cumulative_typed_chars = 0,
                                                 !.cumulative_errors = 0,
                                                 !.current_chunk_errors = 0,
                                                 !.chunks_completed = 0,
                                                 !.typed_text = <<>>])

_reset_for_mode_change(s) ==
  Then(Then(ResetBlock(s), ResetBlock), LAMBDA t : {refresh_display(t)})

(***************************************************************************)
(* on_key.  Each outcome is the attributes the handler leaves (state) and  *)
(* a report of what it did with the event: the branch taken and, for a     *)
(* validated keystroke, its locals and the typed buffer and error counter  *)
(* right after the validation (before check_chunk_completion may load the  *)
(* next chunk).                                                            *)
(***************************************************************************)
Branch(key, branch) == [key |-> key, branch |-> branch]

\* Mutation: any other key is taken for a space.
TypedChar_OtherIsSpace(key) ==
  IF key = "enter" THEN Lf
  ELSE IF key = "tab" THEN Tab
  ELSE IF key \in PrintableKeys THEN key
  ELSE Sp

\* 1. Identify which character was typed (None: not a character)
TypedChar(key) ==
  IF key = "space" THEN Sp
  ELSE IF key = "enter" THEN Lf
  ELSE IF key = "tab" THEN Tab
  ELSE IF key \in PrintableKeys THEN key
  ELSE None

\* 2. Determine which PhysicalKey this corresponds to
PhysicalPressed(char_map, char) ==
  IF char = Sp THEN KEY_SPACE
  ELSE IF char = Lf \/ char = Cr THEN KEY_ENTER
  ELSE IF char = Tab THEN KEY_TAB
  ELSE char_map[char]

\* Mutation: the physical key is not compared, only the character.
IsCorrect_CharOnly(physical_pressed, char, expected_physical, target_char) ==
  \/ char = target_char
  \/ physical_pressed = KEY_ENTER /\ char \in {Lf, Cr} /\ target_char \in {Lf, Cr}

\* 3. Check against expected PhysicalKey: the value of is_correct
IsCorrect(physical_pressed, char, expected_physical, target_char) ==
  LET physical_match == physical_pressed # None /\ physical_pressed = expected_physical
      char_match ==
        \/ char = target_char
        \/ physical_pressed = KEY_ENTER /\ char \in {Lf, Cr} /\ target_char \in {Lf, Cr}
  IN IF physical_pressed # None THEN physical_match /\ char_match ELSE char_match

\* Mutation: a rejected keystroke is appended in hard mode too.
AfterRejected_AlwaysAppend(s, char) ==
  [s EXCEPT !.current_chunk_errors = @ + 1, !.typed_text = Append(@, char)]

\* else: self.current_chunk_errors += 1; append unless HARD_MODE
AfterRejected(s, char) ==
  [s EXCEPT !.current_chunk_errors = @ + 1,
            !.typed_text = IF _get_config(s, "HARD_MODE") THEN @ ELSE Append(@, char)]

\* Mutation: backspace also takes back one counted error.
AfterBackspace_UndoError(s) ==
  [s EXCEPT !.typed_text = SubSeq(@, 1, Len(@) - 1),
            !.current_chunk_errors = IF @ > 0 THEN @ - 1 ELSE 0]

\* self.typed_text = self.typed_text[:-1]
AfterBackspace(s) == [s EXCEPT !.typed_text = SubSeq(@, 1, Len(@) - 1)]

Validate(s, key, char) ==
  LET physical_pressed == PhysicalPressed(s.char_to_physical, char)
      idx == Len(s.typed_text)
  IN IF idx < Len(s.target_keys)
     THEN LET expected_physical == s.target_keys[idx + 1]
              target_char == s.target_text[idx + 1]
              is_correct == IsCorrect(physical_pressed, char, expected_physical, target_char)
              s1 == [s EXCEPT !.session_start_time = IF @ = None THEN "started" ELSE @]
              s2 == IF is_correct THEN [s1 EXCEPT !.typed_text = Append(@, char)]
                    ELSE AfterRejected(s1, char)
          IN {[state |-> t,
               report |-> [key |-> key, branch |-> "validated", char |-> char,
                         physical_pressed |-> physical_pressed, idx |-> idx,
                         expected_physical |-> expected_physical,
                         target_char |-> target_char, is_correct |-> is_correct,
                         hard |-> _get_config(s, "HARD_MODE"),
                         typed_before |-> s.typed_text, typed_after |-> s2.typed_text,
                         errors_before |-> s.current_chunk_errors,
                         errors_after |-> s2.current_chunk_errors]] :
                t \in Then({refresh_display(s2)}, check_chunk_completion)}
     ELSE {[state |-> t, report |-> Branch(key, "out_of_range")] :
             t \in Then({refresh_display(s)}, check_chunk_completion)}

on_key(s, key) ==
  IF s.profile = NoProfile THEN {[state |-> s, report |-> Branch(key, "no_profile")]}
  ELSE IF ~s.session_active
  THEN {[state |-> t, report |-> Branch(key, "inactive")] :
          t \in IF key = "enter" THEN start_new_session(s)
                ELSE IF key = "r" THEN repeat_lesson(s)
                ELSE {s}}
  ELSE IF Len(s.typed_text) >= Len(s.target_text)
  THEN {[state |-> t, report |-> Branch(key, "finished")] :
          t \in IF key = "enter" THEN load_next_chunk(s)
                ELSE IF key = "s" THEN {end_drill_session(s)}
                ELSE {s}}
  ELSE IF key = "backspace"
  THEN {[state |-> refresh_display(AfterBackspace(s)),
         report |-> [key |-> key, branch |-> "backspace",
                   typed_before |-> s.typed_text,
                   errors_before |-> s.current_chunk_errors,
                   typed_after |-> AfterBackspace(s).typed_text,
                   errors_after |-> AfterBackspace(s).current_chunk_errors]]}
  ELSE IF TypedChar(key) = None
  THEN {[state |-> s, report |-> Branch(key, "ignored")]}
  ELSE Validate(s, key, TypedChar(key))

(***************************************************************************)
(* The actions of Spec.                                                    *)
(***************************************************************************)
\* A new UserProfile (models.py defaults: first lesson, no record, no drills,
\* curriculum mode) with the configuration the user gave it.
Profiles ==
  [current_lesson_index : {0}, wpm_record : {0}, total_drills : {0},
   PRACTICE_MODE : {"curriculum"}, HARD_MODE : BOOLEAN,
   DRILL_DURATION : DrillDurations, SHUFFLE_AFTER : ShuffleAfterValues]

\* The application after construction, on one of the keyboard layouts (the
\* lessons here render without shift, so LayoutNoShift adds nothing).
Init ==
  /\ resolver \in Layouts \ {LayoutNoShift}
  /\ Constructed
  /\ SenIdle
  /\ GenIdle
  /\ RenIdle

Running == ~crashed

\* The user's mistakes, completed chunks and drill sessions are bounded.
WithinBounds(s) ==
  /\ s.cumulative_errors + s.current_chunk_errors <= MaxErrors
  /\ s.chunks_completed <= MaxChunks
  /\ (s.profile # NoProfile /\ s.session_active) => s.profile.total_drills < MaxDrills

\* action_switch_profile / set_profile: the first profile is chosen
SelectProfile ==
  /\ Running
  /\ profile = NoProfile
  /\ \E p \in Profiles :
       \E t \in start_new_session([_cancel_prefetch(Self) EXCEPT !.profile = p]) :
         Becomes(t)
  /\ UNCHANGED <<genVars, resolver, renVars, senVars>>

OnKey ==
  /\ Running
  /\ \E key \in EventKeys :
       \E out \in on_key(Self, key) :
         /\ WithinBounds(out.state)
         /\ Becomes(out.state)
  /\ UNCHANGED <<genVars, resolver, renVars, senVars>>

\* update_timer: the tick that finds the drill duration elapsed ends the
\* session; every other tick only refreshes the display.
UpdateTimer ==
  /\ Running
  /\ session_active /\ session_start_time # None
  /\ \E elapsed_ge_duration \in BOOLEAN :
       LET t == IF elapsed_ge_duration THEN end_drill_session(Self)
                ELSE refresh_display(Self)
       IN WithinBounds(t) /\ Becomes(t)
  /\ UNCHANGED <<genVars, resolver, renVars, senVars>>

\* action_toggle_practice_mode (F6)
TogglePracticeMode ==
  /\ Running
  /\ profile # NoProfile
  /\ LET new_mode == CASE PracticeMode(Self) = "curriculum" -> "sentences"
                       [] PracticeMode(Self) = "sentences" -> "code"
                       [] OTHER -> "curriculum"
         s1 == [Self EXCEPT !.profile.PRACTICE_MODE = new_mode]
     IN \E t \in (IF session_active THEN _reset_for_mode_change(s1)
                  ELSE start_new_session(s1)) :
          WithinBounds(t) /\ Becomes(t)
  /\ UNCHANGED <<genVars, resolver, renVars, senVars>>

\* _prefetch_next_chunk, up to its await
PrefetchBegin ==
  /\ Running
  /\ prefetch_task = "pending"
  /\ LET s == Self IN
     Becomes(
       IF s.profile = NoProfile THEN [s EXCEPT !.prefetch_task = "done"]
       ELSE IF s.prefetched_mode # None /\ s.prefetched_mode # PracticeMode(s)
       THEN _cancel_prefetch(s)
       ELSE IF s.prefetched_text # NoText /\ s.prefetched_mode = PracticeMode(s)
       THEN [s EXCEPT !.prefetch_task = "done"]
       ELSE IF PracticeMode(s) \in {"sentences", "code"}
       THEN [s EXCEPT !.prefetch_task = "awaiting", !.task_mode = PracticeMode(s)]
       ELSE [s EXCEPT !.prefetch_task = "done"])
  /\ UNCHANGED <<genVars, resolver, renVars, senVars>>

\* _prefetch_next_chunk, from its await on: the content arrives and is stored,
\* or the source raises and the except branch cancels the pre-fetch
PrefetchFinish ==
  /\ Running
  /\ prefetch_task = "awaiting"
  /\ LET s == Self IN
     \/ \E text \in (IF task_mode = "sentences" THEN SENTENCES ELSE SNIPPETS) :
          Becomes([s EXCEPT !.prefetched_text = text,
                            !.prefetched_keys =
                               _sentence_to_physical_keys(s.char_to_physical, text),
                            !.prefetched_mode = s.task_mode,
                            !.prefetch_task = "done",
                            !.task_mode = None])
     \/ Becomes(_cancel_prefetch(s))
  /\ UNCHANGED <<genVars, resolver, renVars, senVars>>

Next ==
  \/ SelectProfile
  \/ OnKey
  \/ UpdateTimer
  \/ TogglePracticeMode
  \/ PrefetchBegin
  \/ PrefetchFinish

Spec == Init /\ [][Next]_vars

(***************************************************************************)
(* SpecProgress: the application with profiles loaded from disk, which may *)
(* stand at any lesson, and with profile switches during the run.  To make *)
(* room for several drills per profile it is run on the US layout in       *)
(* strict mode only; the handlers are those of Spec.                       *)
(***************************************************************************)
StoredProfiles ==
  [current_lesson_index : 0..(Len(LESSONS) - 1), wpm_record : {0}, total_drills : {0},
   PRACTICE_MODE : {"curriculum"}, HARD_MODE : {TRUE},
   DRILL_DURATION : DrillDurations, SHUFFLE_AFTER : ShuffleAfterValues]

InitProgress ==
  /\ resolver = LayoutUS
  /\ Constructed
  /\ SenIdle
  /\ GenIdle
  /\ RenIdle

WithinProgress(s) ==
  /\ s.cumulative_errors + s.current_chunk_errors <= MaxErrors
  /\ s.chunks_completed <= MaxChunks
  /\ (s.profile # NoProfile /\ s.session_active) =>
       s.profile.total_drills < MaxStoredDrills

\* action_switch_profile / set_profile, at any moment and with any stored
\* profile
SwitchProfile ==
  /\ Running
  /\ \E p \in StoredProfiles :
       \E t \in start_new_session([_cancel_prefetch(Self) EXCEPT !.profile = p]) :
         Becomes(t)
  /\ UNCHANGED <<genVars, resolver, renVars, senVars>>

ProgressOnKey ==
  /\ Running
  /\ \E key \in EventKeys :
       \E out \in on_key(Self, key) :
         /\ WithinProgress(out.state)
         /\ Becomes(out.state)
  /\ UNCHANGED <<genVars, resolver, renVars, senVars>>

ProgressUpdateTimer ==
  /\ Running
  /\ session_active /\ session_start_time # None
  /\ \E elapsed_ge_duration \in BOOLEAN :
       LET t == IF elapsed_ge_duration THEN end_drill_session(Self)
                ELSE refresh_display(Self)
       IN WithinProgress(t) /\ Becomes(t)
  /\ UNCHANGED <<genVars, resolver, renVars, senVars>>

ProgressTogglePracticeMode ==
  /\ Running
  /\ profile # NoProfile
  /\ LET new_mode == CASE PracticeMode(Self) = "curriculum" -> "sentences"
                       [] PracticeMode(Self) = "sentences" -> "code"
                       [] OTHER -> "curriculum"
         s1 == [Self EXCEPT !.profile.PRACTICE_MODE = new_mode]
     IN \E t \in (IF session_active THEN _reset_for_mode_change(s1)
                  ELSE start_new_session(s1)) :
          WithinProgress(t) /\ Becomes(t)
  /\ UNCHANGED <<genVars, resolver, renVars, senVars>>

NextProgress ==
  \/ SwitchProfile
  \/ ProgressOnKey
  \/ ProgressUpdateTimer
  \/ ProgressTogglePracticeMode
  \/ PrefetchBegin
  \/ PrefetchFinish

SpecProgress == InitProgress /\ [][NextProgress]_vars

(***************************************************************************)
(* Properties of the generators (checked under SpecGen).                   *)
(***************************************************************************)
SeparatedAlgos == {"repeat", "adjacent", "alternating", "mirror", "rolls"}

EmptyRow == [left |-> <<>>, right |-> <<>>]

Boundaries(seq) == {i \in DOMAIN seq : seq[i] = KEY_SPACE}

\* No boundary first or last, and no two boundaries side by side.
WellSeparated(seq) ==
  /\ seq # <<>> => seq[1] # KEY_SPACE /\ seq[Len(seq)] # KEY_SPACE
  /\ \A i \in 1..(Len(seq) - 1) : ~(seq[i] = KEY_SPACE /\ seq[i + 1] = KEY_SPACE)

\* C5: whatever the row (no hand holds the space key), the repetition count
\* and the shuffle flag, a sequence returned by single_key_repeat,
\* same_hand_adjacent, alternating_pairs, mirror_pairs or rolls has no two
\* consecutive KEY_SPACE entries and neither starts nor ends with KEY_SPACE.
C5_NoStrayBoundary ==
  (gen_call.algo \in SeparatedAlgos /\ ~gen_ret.err) => WellSeparated(gen_ret.seq)

\* C6: rolls on a row whose hands are both empty returns the empty sequence,
\* for every repetition count and either shuffle flag.
C6_RollsEmptyRow ==
  (gen_call.algo = "rolls" /\ gen_row = EmptyRow) => gen_ret = Returned(<<>>)

\* C7: pseudo_words on a row whose hands are both empty returns the empty
\* sequence and raises nothing, for every count >= 0.
C7_PseudoWordsEmptyRow ==
  (gen_call.algo = "pseudo" /\ gen_row = EmptyRow) => gen_ret = Returned(<<>>)

\* C8: single_key_repeat on an empty key list, and same_hand_adjacent,
\* alternating_pairs and mirror_pairs on a row whose hands are both empty,
\* return the empty sequence and raise nothing, for every repetition count
\* and either shuffle flag.
C8_PairGeneratorsEmptyRow ==
  (gen_call.algo \in {"repeat", "adjacent", "alternating", "mirror"} /\ gen_row = EmptyRow)
    => gen_ret = Returned(<<>>)

C8_Witness ==
  /\ gen_row = EmptyRow
  /\ gen_call = [algo |-> "mirror", shuffle |-> TRUE]
  /\ gen_reps = MaxReps
  /\ gen_ret = Returned(<<>>)

\* C9: for a non-empty list K of n distinct non-space keys and r >= 1,
\* single_key_repeat(K, r, shuffle=false) has length n*r + (n-1), holds each
\* key of K exactly r times as one run, the runs in the order of K, and holds
\* exactly n-1 boundaries, no two adjacent.
C9_Isolation ==
  LET K == gen_row.left \o gen_row.right
      n == Len(K)
      r == gen_reps
      seq == gen_ret.seq
  IN (gen_call = [algo |-> "repeat", shuffle |-> FALSE] /\ n >= 1 /\ r >= 1) =>
       /\ ~gen_ret.err
       /\ Len(seq) = n * r + (n - 1)
       /\ \A k \in 1..n :
            /\ \A j \in 1..r : seq[(k - 1) * (r + 1) + j] = K[k]
            /\ Cardinality({i \in DOMAIN seq : seq[i] = K[k]}) = r
       /\ Cardinality(Boundaries(seq)) = n - 1
       /\ \A i \in Boundaries(seq) : i + 1 \notin Boundaries(seq)

C9_Witness ==
  /\ gen_call = [algo |-> "repeat", shuffle |-> FALSE]
  /\ gen_row = [left |-> <<"KEY_A">>, right |-> <<"KEY_J", "KEY_K">>]
  /\ gen_reps = 2
  /\ gen_ret.seq = <<"KEY_A", "KEY_A", KEY_SPACE, "KEY_J", "KEY_J", KEY_SPACE, "KEY_K", "KEY_K">>

\* Number of pairs in a sequence of two-key units joined by single boundaries.
PairCount(seq) == IF seq = <<>> THEN 0 ELSE Cardinality(Boundaries(seq)) + 1

AdjacentUnshuffledOnce ==
  gen_call = [algo |-> "adjacent", shuffle |-> FALSE] /\ gen_reps = 1

\* C10 as stated: with |left| = L and |right| = R (any L, R >= 0),
\* same_hand_adjacent(row, reps=1, shuffle=false) holds exactly (L-1)+(R-1)
\* pairs, and when that number P is nonzero its length is 2*P + (P-1).
C10_Original ==
  LET P == (Len(gen_row.left) - 1) + (Len(gen_row.right) - 1) IN
  AdjacentUnshuffledOnce =>
    /\ PairCount(gen_ret.seq) = P
    /\ P # 0 => Len(gen_ret.seq) = 2 * P + (P - 1)

\* C10 as amended: the number of pairs is P = max(L-1, 0) + max(R-1, 0) (a
\* hand with fewer than two keys contributes no pair), every pair is two keys,
\* and when P is nonzero the length is 2*P + (P-1).
C10_Adjacency ==
  LET P == Max(Len(gen_row.left) - 1, 0) + Max(Len(gen_row.right) - 1, 0)
      seq == gen_ret.seq
  IN AdjacentUnshuffledOnce =>
       /\ ~gen_ret.err
       /\ PairCount(seq) = P
       /\ P # 0 => Len(seq) = 2 * P + (P - 1)
       /\ \A i \in DOMAIN seq : (seq[i] = KEY_SPACE) <=> (i % 3 = 0)

C10_Witness ==
  /\ AdjacentUnshuffledOnce
  /\ gen_row = [left |-> <<>>, right |-> <<"KEY_J", "KEY_K">>]
  /\ gen_ret.seq = <<"KEY_J", "KEY_K">>

\* The k-th two-key unit of a sequence of pairs joined by single boundaries.
PairAt(seq, k) == <<seq[3 * k - 2], seq[3 * k - 1]>>

\* C11 as stated: whenever same_hand_adjacent(row, reps=1, shuffle=false) is
\* non-empty, its first pair is [left[0], left[1]], and the pairs are the
\* consecutive pairs of left in hand order followed by those of right.
C11_Original ==
  LET left == gen_row.left
      seq == gen_ret.seq
  IN (AdjacentUnshuffledOnce /\ seq # <<>>) =>
       Len(left) >= 2 /\ PairAt(seq, 1) = <<left[1], left[2]>>

\* C11 as amended: the pairs are the consecutive pairs of left in hand order
\* followed by the consecutive pairs of right; so the first pair is
\* [left[0], left[1]] when left has two keys or more, and [right[0], right[1]]
\* when it has fewer (the row 'symbols_basic' has a left hand of one key).
C11_AdjacencyOrder ==
  LET left == gen_row.left
      right == gen_row.right
      PL == Max(Len(left) - 1, 0)
      PR == Max(Len(right) - 1, 0)
      seq == gen_ret.seq
  IN (AdjacentUnshuffledOnce /\ seq # <<>>) =>
       /\ PairCount(seq) = PL + PR
       /\ \A k \in 1..PL : PairAt(seq, k) = <<left[k], left[k + 1]>>
       /\ \A k \in 1..PR : PairAt(seq, PL + k) = <<right[k], right[k + 1]>>
       /\ Len(left) >= 2 => PairAt(seq, 1) = <<left[1], left[2]>>
       /\ Len(left) < 2 => PairAt(seq, 1) = <<right[1], right[2]>>

\* A left hand of one key, as in 'symbols_basic': the output starts with the
\* first pair of the right hand.
C11_Witness ==
  /\ AdjacentUnshuffledOnce
  /\ gen_row = [left |-> <<"KEY_A">>, right |-> <<"KEY_J", "KEY_K", "KEY_L">>]
  /\ gen_ret.seq = <<"KEY_J", "KEY_K", KEY_SPACE, "KEY_K", "KEY_L">>

\* The keys that occur in a sequence.
KeysOf(seq) == {seq[i] : i \in DOMAIN seq}

AlternatingUnshuffledOnce ==
  gen_call = [algo |-> "alternating", shuffle |-> FALSE] /\ gen_reps = 1

\* C12: alternating_pairs(row, reps=1, shuffle=false) holds exactly
\* min(|left|, |right|) pairs, its i-th pair is [left[i], right[i]],
\* consecutive pairs are separated by exactly one boundary, and no key of the
\* longer hand beyond the shorter hand's length appears.
C12_Alternating ==
  LET left == gen_row.left
      right == gen_row.right
      n == Min(Len(left), Len(right))
      seq == gen_ret.seq
  IN AlternatingUnshuffledOnce =>
       /\ ~gen_ret.err
       /\ PairCount(seq) = n
       /\ Len(seq) = IF n = 0 THEN 0 ELSE 3 * n - 1
       /\ \A k \in 1..n : PairAt(seq, k) = <<left[k], right[k]>>
       /\ \A i \in DOMAIN seq : (seq[i] = KEY_SPACE) <=> (i % 3 = 0)
       /\ \A k \in (n + 1)..Len(left) : left[k] \notin KeysOf(seq)
       /\ \A k \in (n + 1)..Len(right) : right[k] \notin KeysOf(seq)

C12_Witness ==
  /\ AlternatingUnshuffledOnce
  /\ gen_row = [left |-> <<"KEY_A", "KEY_S", "KEY_D">>, right |-> <<"KEY_J", "KEY_K">>]
  /\ gen_ret.seq = <<"KEY_A", "KEY_J", KEY_SPACE, "KEY_S", "KEY_K">>

MirrorUnshuffledOnce ==
  gen_call = [algo |-> "mirror", shuffle |-> FALSE] /\ gen_reps = 1

\* C13: for every row whose left hand is not empty, whatever the relative
\* lengths of the hands, mirror_pairs(row, reps=1, shuffle=false) returns
\* without error a sequence whose i-th pair is [left[i], right[|right|-1-i]]
\* (0-based), so that its first pair is [left[0], right[-1]].
C13_MirrorReturns ==
  LET left == gen_row.left
      right == gen_row.right
      seq == gen_ret.seq
  IN (MirrorUnshuffledOnce /\ left # <<>>) =>
       /\ ~gen_ret.err
       /\ PairCount(seq) = Len(left)
       /\ \A k \in 1..Len(left) :
            PairAt(seq, k) = <<left[k], right[Len(right) + 1 - k]>>

RollsUnshuffled == gen_call = [algo |-> "rolls", shuffle |-> FALSE]

\* The element at 0-based offset j of one block "left, boundary, reversed left,
\* boundary, right, boundary, reversed right, boundary".
RollBlockAt(left, right, j) ==
  LET L == Len(left)
      R == Len(right)
  IN IF j < L THEN left[j + 1]
     ELSE IF j = L THEN KEY_SPACE
     ELSE IF j <= 2 * L THEN left[2 * L + 1 - j]
     ELSE IF j = 2 * L + 1 THEN KEY_SPACE
     ELSE IF j <= 2 * L + 1 + R THEN right[j - 2 * L - 1]
     ELSE IF j = 2 * L + 2 + R THEN KEY_SPACE
     ELSE IF j <= 2 * L + 2 + 2 * R THEN right[2 * L + 3 + 2 * R - j]
     ELSE KEY_SPACE

\* C14: for a row with both hands non-empty and reps >= 1,
\* rolls(row, reps, shuffle=false) is the concatenation, joined by single
\* boundaries, of reps copies of the four patterns left, reversed left, right,
\* reversed right in that order; its first |left| elements are the left hand
\* and its length is reps*2*(|left|+|right|) + 4*reps - 1.
C14_Rolls ==
  LET left == gen_row.left
      right == gen_row.right
      seq == gen_ret.seq
      block == 2 * (Len(left) + Len(right)) + 4
  IN (RollsUnshuffled /\ left # <<>> /\ right # <<>> /\ gen_reps >= 1) =>
       /\ ~gen_ret.err
       /\ Len(seq) = gen_reps * 2 * (Len(left) + Len(right)) + 4 * gen_reps - 1
       /\ SubSeq(seq, 1, Len(left)) = left
       /\ \A i \in DOMAIN seq : seq[i] = RollBlockAt(left, right, (i - 1) % block)

C14_Witness ==
  /\ RollsUnshuffled
  /\ gen_reps = 2
  /\ gen_row = [left |-> <<"KEY_A", "KEY_S">>, right |-> <<"KEY_J">>]
  /\ gen_ret.seq = <<"KEY_A", "KEY_S", KEY_SPACE, "KEY_S", "KEY_A", KEY_SPACE,
                     "KEY_J", KEY_SPACE, "KEY_J", KEY_SPACE,
                     "KEY_A", "KEY_S", KEY_SPACE, "KEY_S", "KEY_A", KEY_SPACE,
                     "KEY_J", KEY_SPACE, "KEY_J">>

PseudoCalled == gen_call.algo = "pseudo"

\* The position of the boundary before position i, 0 when there is none.
PrevBoundary(seq, i) ==
  LET before == {j \in Boundaries(seq) : j < i}
  IN IF before = {} THEN 0 ELSE CHOOSE j \in before : \A k \in before : k <= j

\* C15: for a row with at least one key and count >= 0, every output of
\* pseudo_words(row, count) holds exactly count words, each a run of 3, 4 or 5
\* keys of left + right, each word (the last included) followed by exactly
\* one KEY_SPACE; its length is between 4*count and 6*count and it ends with a
\* boundary when count >= 1.
C15_PseudoWords ==
  LET all_keys == gen_row.left \o gen_row.right
      seq == gen_ret.seq
  IN (PseudoCalled /\ all_keys # <<>>) =>
       /\ ~gen_ret.err
       /\ Cardinality(Boundaries(seq)) = gen_count
       /\ \A i \in Boundaries(seq) : i - PrevBoundary(seq, i) - 1 \in {3, 4, 5}
       /\ \A i \in DOMAIN seq \ Boundaries(seq) : seq[i] \in KeysOf(all_keys)
       /\ seq # <<>> => seq[Len(seq)] = KEY_SPACE
       /\ gen_count >= 1 => seq # <<>>
       /\ 4 * gen_count <= Len(seq) /\ Len(seq) <= 6 * gen_count

C15_Witness ==
  /\ PseudoCalled
  /\ gen_count = 2
  /\ gen_row = [left |-> <<"KEY_A">>, right |-> <<"KEY_J">>]
  /\ gen_ret.seq = <<"KEY_A", "KEY_J", "KEY_A", KEY_SPACE,
                     "KEY_J", "KEY_J", "KEY_A", "KEY_J", "KEY_A", KEY_SPACE>>

\* The units of a returned sequence: the runs of keys between its boundaries
\* (no unit in an empty sequence).  The rows of this model hold no KEY_SPACE.
NthBoundary(seq, k) ==
  IF k = 0 THEN 0
  ELSE IF k > Cardinality(Boundaries(seq)) THEN Len(seq) + 1
  ELSE CHOOSE i \in Boundaries(seq) :
         Cardinality({j \in Boundaries(seq) : j <= i}) = k

UnitsOf(seq) ==
  IF seq = <<>> THEN <<>>
  ELSE [k \in 1..(Cardinality(Boundaries(seq)) + 1) |->
          SubSeq(seq, NthBoundary(seq, k - 1) + 1, NthBoundary(seq, k) - 1)]

SameUnits(a, b) ==
  /\ Len(a) = Len(b)
  /\ \A i \in DOMAIN a :
       Cardinality({j \in DOMAIN a : a[j] = a[i]})
         = Cardinality({j \in DOMAIN b : b[j] = a[i]})

\* What the generator just called returns on the same row and repetition
\* count without shuffling.
UnshuffledResults ==
  CASE gen_call.algo = "repeat" ->
         single_key_repeat(gen_row.left \o gen_row.right, gen_reps, FALSE)
    [] gen_call.algo = "adjacent" -> same_hand_adjacent(gen_row, gen_reps, FALSE)
    [] gen_call.algo = "alternating" -> alternating_pairs(gen_row, gen_reps, FALSE)
    [] gen_call.algo = "mirror" -> mirror_pairs(gen_row, gen_reps, FALSE)
    [] gen_call.algo = "rolls" -> rolls(gen_row, gen_reps, FALSE)

ShuffledCall ==
  /\ gen_call # NotCalled
  /\ gen_call.algo \in SeparatedAlgos
  /\ gen_call.shuffle

C16_UnitsPermuted ==
  (ShuffledCall /\ ~gen_ret.err) =>
    \A r \in UnshuffledResults :
      /\ ~r.err
      /\ Len(gen_ret.seq) = Len(r.seq)
      /\ SameUnits(UnitsOf(gen_ret.seq), UnitsOf(r.seq))

Typing == profile # NoProfile /\ session_active /\ ~crashed

\* C1: a keystroke classified as a character c that arrives while a session
\* is active with idx = Len(typed_text) < Len(target_keys) is validated, and
\* with p the reverse lookup of c: if p is present the keystroke is accepted
\* iff p = target_keys[idx] and c = target_text[idx] (Enter counts as a
\* character match when target_text[idx] is LF or CR); if p is absent it is
\* accepted iff c = target_text[idx].  A keystroke whose character matches
\* but whose physical key differs from the expected one is rejected.
C1_AcceptedIff ==
  Typing =>
    \A key \in EventKeys : \A out \in on_key(Self, key) :
      LET c == TypedChar(key)
          idx == Len(typed_text)
      IN (key # "backspace" /\ c # None /\ idx < Len(target_keys)) =>
           LET p == PhysicalPressed(char_to_physical, c)
               expected == target_keys[idx + 1]
               wanted == target_text[idx + 1]
               chars_agree == c = wanted \/ (key = "enter" /\ wanted \in {Lf, Cr})
           IN /\ out.report.branch = "validated"
              /\ p # None => (out.report.is_correct <=> (p = expected /\ chars_agree))
              /\ p = None => (out.report.is_correct <=> c = wanted)
              /\ (c = wanted /\ p # None /\ p # expected) => ~out.report.is_correct

\* The character typed equals the target character, its physical key is known
\* and is not the expected one, and the keystroke was counted as an error
\* (non-strict mode appended it all the same).
C1_Witness ==
  /\ Typing
  /\ ~profile.HARD_MODE
  /\ chunks_completed = 0 /\ current_chunk_errors = 1
  /\ typed_text = <<"a">>
  /\ target_text[1] = "a"
  /\ target_keys[1] = "KEY_A"
  /\ char_to_physical["a"] = "KEY_S"

\* C2: a rejected keystroke increments the chunk's error counter by exactly
\* one; in strict mode it leaves the typed buffer (and so idx) unchanged, in
\* non-strict mode the character is appended; an accepted keystroke appends
\* the character and leaves the error counter unchanged.  The handler then
\* leaves these values in place unless the keystroke completed the chunk, and
\* no error is lost when it did.
C2_KeystrokeEffect ==
  Typing =>
    \A key \in EventKeys : \A out \in on_key(Self, key) :
      out.report.branch = "validated" =>
        LET r == out.report
            appended == Append(typed_text, TypedChar(key))
        IN /\ r.is_correct =>
                r.typed_after = appended /\ r.errors_after = current_chunk_errors
           /\ ~r.is_correct =>
                /\ r.errors_after = current_chunk_errors + 1
                /\ profile.HARD_MODE => r.typed_after = typed_text
                /\ ~profile.HARD_MODE => r.typed_after = appended
           /\ (~out.state.crashed /\ Len(r.typed_after) # Len(target_text)) =>
                /\ out.state.typed_text = r.typed_after
                /\ out.state.current_chunk_errors = r.errors_after
                /\ out.state.cumulative_errors = cumulative_errors
           /\ (~out.state.crashed /\ Len(r.typed_after) = Len(target_text)) =>
                out.state.cumulative_errors + out.state.current_chunk_errors
                  = cumulative_errors + r.errors_after

\* In strict mode an error has been counted and the buffer is still empty.
C2_Witness ==
  /\ Typing
  /\ profile.HARD_MODE
  /\ chunks_completed = 0 /\ current_chunk_errors = 1
  /\ typed_text = <<>>
  /\ session_start_time # None

\* C3: a backspace pressed mid-chunk removes the last character of the typed
\* buffer when it is non-empty and changes nothing when it is empty; in both
\* modes the chunk's error counter and the cumulative counters stay as they
\* are.
C3_Backspace ==
  (Typing /\ Len(typed_text) < Len(target_text)) =>
    \A out \in on_key(Self, "backspace") :
      /\ out.report.branch = "backspace"
      /\ Len(typed_text) > 0 =>
           /\ Len(out.state.typed_text) = Len(typed_text) - 1
           /\ \A i \in DOMAIN out.state.typed_text : out.state.typed_text[i] = typed_text[i]
      /\ Len(typed_text) = 0 => out.state.typed_text = <<>>
      /\ out.state.current_chunk_errors = current_chunk_errors
      /\ out.state.cumulative_errors = cumulative_errors
      /\ out.state.cumulative_typed_chars = cumulative_typed_chars
      /\ out.state.chunks_completed = chunks_completed
      /\ out.state.target_text = target_text
      /\ out.state.target_keys = target_keys

\* In non-strict mode every rejected keystroke is appended, so an empty buffer
\* with an error counted is what a backspace left after a rejected keystroke.
C3_Witness ==
  /\ Typing
  /\ ~profile.HARD_MODE
  /\ chunks_completed = 0 /\ current_chunk_errors = 1
  /\ typed_text = <<>>
  /\ Len(target_text) > 0

\* The characters some physical key produces, unshifted or shifted.
Produced == {resolver[kb] : kb \in DOMAIN resolver} \ {None}

C18_MapComplete ==
  \A c \in Produced :
    /\ char_to_physical[c] # None
    /\ \E shift \in BOOLEAN : resolver[<<char_to_physical[c], shift>>] = c

C18_SpecialKeys ==
  Typing =>
    \A key \in {"space", "enter", "tab"} : \A out \in on_key(Self, key) :
      out.report.branch = "validated" =>
        out.report.physical_pressed =
          (CASE key = "space" -> KEY_SPACE
             [] key = "enter" -> KEY_ENTER
             [] key = "tab" -> KEY_TAB)

\* C18: the reverse map built at start-up holds every character some
\* PhysicalKey produces unshifted or shifted, maps it to a key that produces
\* it in one of those two states, and is never modified afterwards; the
\* keystrokes space, enter and tab are attributed to KEY_SPACE, KEY_ENTER and
\* KEY_TAB whatever the resolver returns.
C18_ReverseMap ==
  /\ [](C18_MapComplete /\ C18_SpecialKeys)
  /\ [][char_to_physical' = char_to_physical /\ resolver' = resolver]_vars

\* The space key has no symbol, the map has no entry for the space character,
\* and a space keystroke was validated against KEY_A as KEY_SPACE: an error,
\* appended in non-strict mode.
C18_Witness ==
  /\ Typing
  /\ resolver = LayoutHole
  /\ char_to_physical[Sp] = None
  /\ char_to_physical["J"] = "KEY_J"
  /\ target_keys # <<>> /\ target_keys[1] = "KEY_A"
  /\ typed_text = <<Sp>>
  /\ current_chunk_errors = 1

IsPrefix(a, b) == Len(a) <= Len(b) /\ SubSeq(b, 1, Len(a)) = a

\* An accepted keystroke appends the character expected at its position.
C19_AppendsExpected ==
  Typing =>
    \A key \in EventKeys : \A out \in on_key(Self, key) :
      (out.report.branch = "validated" /\ out.report.is_correct) =>
        out.report.typed_after = Append(out.report.typed_before, out.report.target_char)

\* In strict mode the typed buffer is a prefix of the target text, in every
\* state and after the buffer's update by any keystroke or backspace.
C19_StrictPrefix ==
  (Typing /\ profile.HARD_MODE) =>
    /\ IsPrefix(typed_text, target_text)
    /\ \A key \in EventKeys : \A out \in on_key(Self, key) :
         out.report.branch \in {"validated", "backspace"} =>
           IsPrefix(out.report.typed_after, target_text)

\* C19: every accepted keystroke appends a character equal to the expected
\* character at that position; hence in strict mode, after any sequence of
\* keystrokes and backspaces within a chunk, the typed buffer is a prefix of
\* the target text.
C19_AcceptedIsExpected == C19_AppendsExpected /\ C19_StrictPrefix

\* The attributes a key event without effect leaves alone.
Untouched(s, t) ==
  /\ t.typed_text = s.typed_text
  /\ t.current_chunk_errors = s.current_chunk_errors
  /\ t.cumulative_typed_chars = s.cumulative_typed_chars
  /\ t.cumulative_errors = s.cumulative_errors
  /\ s.session_start_time = None => t.session_start_time = None

\* Neither backspace nor a character: not space, enter, tab or printable.
OtherKeys == EventKeys \ ({"backspace", "space", "enter", "tab"} \cup PrintableKeys)

\* A character keystroke.
Keystrokes == {"space", "enter", "tab"} \cup PrintableKeys

\* C20: during a session, a key event that is neither backspace, space, enter,
\* tab nor printable, and a keystroke that arrives when
\* idx = Len(typed_text) >= Len(target_keys), change neither the typed buffer
\* nor the chunk's error counter nor the cumulative counters, and do not start
\* the session timer.
C20_NoEffect ==
  Typing =>
    /\ \A key \in OtherKeys : \A out \in on_key(Self, key) : Untouched(Self, out.state)
    /\ Len(typed_text) >= Len(target_keys) =>
         \A key \in Keystrokes : \A out \in on_key(Self, key) : Untouched(Self, out.state)

\* A chunk has been typed and the next one is empty: every keystroke arrives
\* with idx = 0 >= Len(target_keys), the counters of the session being set.
C20_Witness ==
  /\ Typing
  /\ target_keys = <<>>
  /\ typed_text = <<>>
  /\ session_start_time # None
  /\ cumulative_typed_chars > 0
  /\ cumulative_errors > 0

\* C21: after any sequence of keystrokes, backspaces, chunk loads and session
\* starts, idx = Len(typed_text) satisfies 0 <= idx <= Len(target_keys) and
\* idx <= Len(target_text), and the validator reads target_keys and
\* target_text only at an index inside their bounds.
C21_IndexInBounds ==
  /\ Len(typed_text) <= Len(target_keys)
  /\ Len(typed_text) <= Len(target_text)
  /\ Typing =>
       \A key \in EventKeys : \A out \in on_key(Self, key) :
         out.report.branch = "validated" =>
           /\ out.report.idx = Len(typed_text)
           /\ out.report.idx + 1 \in DOMAIN target_keys
           /\ out.report.idx + 1 \in DOMAIN target_text
           /\ Len(out.state.typed_text) <= Len(out.state.target_keys)
           /\ Len(out.state.typed_text) <= Len(out.state.target_text)

\* One character short of a chunk whose text is one shorter than its keys:
\* the key without a symbol left a hole in the text.
C21_Witness ==
  /\ Typing
  /\ resolver = LayoutHole
  /\ Len(target_text) < Len(target_keys)
  /\ Len(typed_text) = Len(target_text) - 1
  /\ typed_text # <<>>

\* The key event a user sends to type the displayed character c.
KeyFor(c) ==
  IF c = Sp THEN "space"
  ELSE IF c = Lf \/ c = Cr THEN "enter"
  ELSE IF c = Tab THEN "tab"
  ELSE c

\* C26: in strict mode, on any layout, at every position of a curriculum
\* chunk the keystroke that types the displayed character is accepted and
\* advances the typed buffer by one (so the chunk completes after exactly
\* Len(target_text) keystrokes and no position rejects every keystroke).
C26_DisplayedIsAccepted ==
  (Typing /\ profile.HARD_MODE /\ PracticeMode(Self) = "curriculum"
     /\ Len(typed_text) < Len(target_text)) =>
    \A out \in on_key(Self, KeyFor(target_text[Len(typed_text) + 1])) :
      /\ out.report.branch = "validated"
      /\ out.report.is_correct
      /\ out.report.typed_after = Append(typed_text, target_text[Len(typed_text) + 1])

\* A keystroke that completes the chunk loads the next one in the same step.
C27_LoadsInStep ==
  Typing =>
    \A key \in EventKeys : \A out \in on_key(Self, key) :
      (out.report.branch = "validated"
         /\ Len(out.report.typed_after) = Len(target_text)) =>
        /\ out.state.cumulative_typed_chars =
             cumulative_typed_chars + Len(out.report.typed_after)
        /\ out.state.cumulative_errors = cumulative_errors + out.report.errors_after
        /\ out.state.chunks_completed = chunks_completed + 1
        /\ out.state.typed_text = <<>>
        /\ out.state.current_chunk_errors = 0

\* While the session goes on, the two error counters together grow by one
\* with each rejected keystroke and change with nothing else.
C27_ErrorsCounted ==
  Typing =>
    \A key \in EventKeys : \A out \in on_key(Self, key) :
      out.state.session_active =>
        out.state.cumulative_errors + out.state.current_chunk_errors =
          cumulative_errors + current_chunk_errors
            + (IF out.report.branch = "validated" /\ ~out.report.is_correct
               THEN 1 ELSE 0)

\* The typed buffer is shorter than a non-empty target text.
Unfinished(s) == Len(s.typed_text) < Len(s.target_text) \/ s.target_text = <<>>

C27_NeverFull ==
  Typing =>
    /\ Unfinished(Self)
    /\ \A key \in EventKeys : \A out \in on_key(Self, key) :
         out.state.session_active => Unfinished(out.state)

\* C27: a keystroke that makes Len(typed_text) = Len(target_text) in an active
\* session loads the next chunk in the same step (the typed length and the
\* chunk's errors go to the cumulative counters, chunks_completed grows by
\* one, the buffer and the chunk's errors are reset); so during a session
\* cumulative_errors + current_chunk_errors counts the rejected keystrokes and
\* never decreases, and after every keystroke Len(typed_text) <
\* Len(target_text) unless target_text is empty.
C27_ChunkAccounting == C27_LoadsInStep /\ C27_ErrorsCounted /\ C27_NeverFull

\* The chunks single_key_repeat makes of a lesson's row, with or without
\* shuffle.
ChunkKeys(lesson, shuffle) ==
  LET row_data == LAYOUT[LessonRow(lesson)] IN
  {r.seq : r \in single_key_repeat(row_data.left \o row_data.right, LessonReps, shuffle)}

\* A profile in curriculum mode at a key-repeat lesson of a known row.
AtRepeatLesson(s) ==
  /\ s.profile # NoProfile
  /\ ~s.crashed
  /\ PracticeMode(s) = "curriculum"
  /\ LESSONS[s.profile.current_lesson_index + 1].algo = "repeat"
  /\ LessonRow(LESSONS[s.profile.current_lesson_index + 1]) \in DOMAIN LAYOUT

LessonOf(s) == LESSONS[s.profile.current_lesson_index + 1]

\* The first chunk of a session, and of a mode reset into curriculum mode, is
\* generated with chunks_completed = 0.
C30_FirstChunk ==
  /\ AtRepeatLesson(Self) =>
       /\ {t.target_keys : t \in start_new_session(Self)} =
            ChunkKeys(LessonOf(Self), 0 >= profile.SHUFFLE_AFTER)
       /\ \A t \in start_new_session(Self) : t.chunks_completed = 0
  /\ \A mode \in PracticeModes :
       LET s == [Self EXCEPT !.profile.PRACTICE_MODE = "curriculum"] IN
       (Typing /\ PracticeMode(Self) = mode /\ AtRepeatLesson(s)) =>
         /\ {t.target_keys : t \in _reset_for_mode_change(s)} =
              ChunkKeys(LessonOf(s), 0 >= profile.SHUFFLE_AFTER)
         /\ \A t \in _reset_for_mode_change(s) : t.chunks_completed = 0

\* The chunk after k completed chunks is generated with shuffle iff
\* k >= SHUFFLE_AFTER.
C30_NextChunk ==
  (Typing /\ AtRepeatLesson(Self)) =>
    /\ {t.target_keys : t \in load_next_chunk(Self)} =
         ChunkKeys(LessonOf(Self), chunks_completed + 1 >= profile.SHUFFLE_AFTER)
    /\ \A t \in load_next_chunk(Self) : t.chunks_completed = chunks_completed + 1
    /\ target_keys \in ChunkKeys(LessonOf(Self), chunks_completed >= profile.SHUFFLE_AFTER)

\* The key event completes the chunk: it fills the typed buffer, or it is
\* Enter on a chunk that is already full.
Completes(out) ==
  \/ out.report.branch = "validated" /\ Len(out.report.typed_after) = Len(target_text)
  \/ out.report.branch = "finished" /\ out.report.key = "enter"

\* chunks_completed grows by one with a completed chunk and changes with no
\* other keystroke of the session (a backspace, a rejected keystroke).
C30_CountsChunks ==
  Typing =>
    \A key \in EventKeys : \A out \in on_key(Self, key) :
      (out.state.session_active /\ ~out.state.crashed) =>
        out.state.chunks_completed =
          chunks_completed + (IF Completes(out) THEN 1 ELSE 0)

\* C30: in curriculum mode the k-th chunk of a session (k from 0 at the
\* session start or mode reset) is generated with shuffle iff
\* k >= SHUFFLE_AFTER: chunks_completed is 0 when the first chunk is generated,
\* grows by exactly one per completed chunk, is unaffected by backspaces and
\* rejected keystrokes, and the flag is chunks_completed >= SHUFFLE_AFTER.
C30_ShuffleAfter == C30_FirstChunk /\ C30_NextChunk /\ C30_CountsChunks

\* The second chunk of a session came out in a shuffled order.
C30_Witness ==
  /\ Typing
  /\ AtRepeatLesson(Self)
  /\ chunks_completed = 1
  /\ target_keys = <<"KEY_J", KEY_SPACE, "KEY_A">>

(***************************************************************************)
(* Properties of lesson generation and progress (checked under             *)
(* SpecProgress).                                                          *)
(***************************************************************************)
CurrentLesson == LESSONS[profile.current_lesson_index + 1]

RowKeys(row_key) ==
  KeysOf(LAYOUT[row_key].left) \cup KeysOf(LAYOUT[row_key].right)

\* C22: generate_lesson_text never generates keys from a row other than the
\* one the lesson descriptor names: when the descriptor's row name is not a
\* key of LAYOUT (a descriptor without a row name included) it raises instead
\* of substituting a default row and leaves target_keys and target_text as
\* they were.
C22_RowLookup ==
  (profile # NoProfile /\ ~crashed /\ CurrentLesson.algo # "sentence") =>
    \A t \in generate_lesson_text(Self) :
      IF CurrentLesson.row \in DOMAIN LAYOUT
      THEN /\ ~t.crashed
           /\ KeysOf(t.target_keys) \subseteq RowKeys(CurrentLesson.row) \cup {KEY_SPACE}
      ELSE /\ t.crashed
           /\ t.target_keys = target_keys
           /\ t.target_text = target_text

\* A text and a key sequence that one generation made together: the keys of
\* the text's characters, or the text rendered from the keys.
ProducedTogether(text, keys) ==
  \/ keys = _sentence_to_physical_keys(char_to_physical, text)
  \/ \E shift_mode \in ShiftModes : text \in _render_keys_to_text(resolver, keys, shift_mode)

\* The texts the source of a practice mode hands over.
SourceOf(mode) == IF mode = "sentences" THEN SENTENCES ELSE SNIPPETS

C23_PairsWhole ==
  /\ ProducedTogether(target_text, target_keys)
  /\ (prefetched_text = NoText) <=> (prefetched_keys = NoText)
  /\ (prefetched_text = NoText) <=> (prefetched_mode = None)
  /\ prefetched_text # NoText =>
       /\ prefetched_mode \in {"sentences", "code"}
       /\ prefetched_text \in SourceOf(prefetched_mode)
       /\ prefetched_keys = _sentence_to_physical_keys(char_to_physical, prefetched_text)
  /\ (profile # NoProfile /\ ~crashed /\ PracticeMode(Self) # "curriculum") =>
       target_text \in SourceOf(PracticeMode(Self))
  /\ prefetch_task = "awaiting" <=> task_mode # None

\* A pair is stored only by the step of the one pre-fetch task that is alive.
C23_StoredByLiveTask ==
  (prefetched_text' # NoText /\ prefetched_text' # prefetched_text) =>
    /\ prefetch_task = "awaiting"
    /\ prefetch_task' = "done"
    /\ prefetched_mode' = task_mode

C25_RepeatRestores ==
  (profile # NoProfile /\ ~session_active /\ ~crashed) =>
    \A t \in repeat_lesson(Self) :
      /\ t.profile.current_lesson_index <= profile.current_lesson_index
      /\ t.profile.current_lesson_index < profile.current_lesson_index =>
           /\ PracticeMode(Self) = "curriculum"
           /\ last_drill_passed
           /\ t.profile.current_lesson_index = previous_lesson_index
           /\ profile.current_lesson_index = previous_lesson_index + 1

\* The index stays a position of LESSONS.
C28_InRange ==
  profile # NoProfile =>
    profile.current_lesson_index \in 0..(Len(LESSONS) - 1)

\* The session's totals as end_drill_session completes them.
AtEnd ==
  [Self EXCEPT !.cumulative_typed_chars = @ + Len(typed_text),
               !.cumulative_errors = @ + current_chunk_errors]

\* The drill ending now is a curriculum drill that meets both targets.
Cleared ==
  /\ PracticeMode(Self) = "curriculum"
  /\ FinalAcc(AtEnd) >= CurrentLesson.target_acc
  /\ FinalWpm(AtEnd) >= CurrentLesson.target_wpm

\* Ending the drill moves the index by one, capped, when the drill cleared
\* the lesson, and leaves it alone otherwise.
C28_EvaluationStep ==
  Typing =>
    end_drill_session(Self).profile.current_lesson_index =
      IF Cleared
      THEN (IF profile.current_lesson_index + 1 < Len(LESSONS)
            THEN profile.current_lesson_index + 1
            ELSE Len(LESSONS) - 1)
      ELSE profile.current_lesson_index

\* C28: the lesson index stays within 0..len(LESSONS)-1 through drills,
\* repeats, session starts and mode changes; a drill evaluation changes it
\* only in curriculum mode when accuracy and wpm reach the lesson's targets,
\* and then by exactly +1 capped at the last lesson; a sentence or code drill
\* never changes it.
C28_IndexProgress == C28_InRange /\ C28_EvaluationStep

\* A curriculum drill has just cleared its lesson and moved the index on.
C28_Witness ==
  /\ profile # NoProfile
  /\ ~session_active
  /\ PracticeMode(Self) = "curriculum"
  /\ last_drill_passed
  /\ profile.current_lesson_index = previous_lesson_index + 1

\* The last lesson was cleared and the index stayed on it.
C28_WitnessCapped ==
  /\ profile # NoProfile
  /\ ~session_active
  /\ PracticeMode(Self) = "curriculum"
  /\ last_drill_passed
  /\ previous_lesson_index = Len(LESSONS) - 1
  /\ profile.current_lesson_index = Len(LESSONS) - 1

\* end_drill_session closes the session, adds the last chunk to the totals
\* and counts one drill.
C29_EndStep ==
  Typing =>
    LET t == end_drill_session(Self) IN
    /\ ~t.session_active
    /\ t.cumulative_typed_chars = cumulative_typed_chars + Len(typed_text)
    /\ t.cumulative_errors = cumulative_errors + current_chunk_errors
    /\ t.profile.total_drills = profile.total_drills + 1

\* With the session inactive a key event either starts a new session (Enter,
\* "r") or changes nothing; it never counts a drill.
C29_InactiveKeys ==
  (profile # NoProfile /\ ~session_active /\ ~crashed) =>
    \A key \in EventKeys : \A out \in on_key(Self, key) :
      /\ out.state.profile.total_drills = profile.total_drills
      /\ IF key \in {"enter", "r"} THEN out.state.session_active
         ELSE out.state = Self

\* A step that ends the session.
Ended == session_active /\ ~session_active'

\* While the session stays inactive neither a tick nor a keystroke touches the
\* typed buffer, the counters or the profile; the step that ends a session
\* adds the last chunk once and counts one drill; total_drills changes with
\* nothing else (a profile switch brings that profile's own count and starts a
\* session).
C29_Step ==
  /\ (profile # NoProfile /\ ~session_active /\ ~session_active') =>
       UNCHANGED <<typed_text, cumulative_typed_chars, cumulative_errors,
                   current_chunk_errors, profile>>
  /\ Ended =>
       /\ profile'.total_drills = profile.total_drills + 1
       /\ cumulative_typed_chars' = cumulative_typed_chars + Len(typed_text)
       /\ cumulative_errors' = cumulative_errors + current_chunk_errors
  /\ (profile # NoProfile /\ profile'.total_drills # profile.total_drills) =>
       Ended \/ (session_active' /\ profile' \in StoredProfiles)

\* C29: a session is ended at most once.  After end_drill_session the session
\* is inactive, and until a new session starts neither a timer tick nor a
\* keystroke ends it again or changes the typed buffer or an error counter;
\* the last chunk's characters and errors are added to the totals once and
\* total_drills grows by exactly one per ended session.
C29_EndedOnce == [](C29_EndStep /\ C29_InactiveKeys) /\ [][C29_Step]_vars

\* A second session of the same profile has ended.
C29_Witness ==
  /\ profile # NoProfile
  /\ ~session_active
  /\ profile.total_drills = 2
  /\ cumulative_typed_chars > 0

(***************************************************************************)
(* Properties of the sentence source (checked under SpecSentence).         *)
(***************************************************************************)
\* The configured source failed: the API or AI request did not answer 200,
\* the command raised, or the sentences file does not exist.
SourceFailed ==
  \/ sen_config.SENTENCE_SOURCE \in {"api", "ai"} /\ sen_world.request.status # 200
  \/ sen_config.SENTENCE_SOURCE = "cmd" /\ ~sen_world.command.ok
  \/ sen_config.SENTENCE_SOURCE = "file" /\ ~sen_world.file.exists

\* C24: generate_sentence never raises, and whenever its configured source
\* failed it returns a sentence of the built-in list SENTENCES.
C24_FallsBackToLocal ==
  sen_called =>
    /\ ~sen_ret.err
    /\ SourceFailed => sen_ret.seq \in SENTENCES

(***************************************************************************)
(* Properties of the renderer (checked under SpecRender).                  *)
(***************************************************************************)
\* C4: for a generator output S, any shift mode and any layout resolver (which
\* may return nothing), the rendered string has exactly Len(S) characters and
\* its character at index i is the one rendered for the key S[i].
C4_RenderAligned ==
  ren_rendered # None =>
    /\ Len(ren_text) = Len(ren_keys)
    /\ \A i \in DOMAIN ren_keys : ren_rendered[i] = <<ren_text[i]>>

\* What `rendered` holds for a resolution: the character, or "" for None.
AsEmitted(char) == IF char = None THEN <<>> ELSE <<char>>

\* The shift states a shift mode allows for one key.
ShiftStates(shift_mode) ==
  CASE shift_mode = "off" -> {FALSE}
    [] shift_mode = "always" -> {TRUE}
    [] shift_mode = "mixed" -> BOOLEAN

\* C17: for each key the renderer emits a literal space for KEY_SPACE under
\* every shift mode, whatever the resolver holds for that key; for any other
\* key it emits resolve(key, shift) with shift false in mode 'off', true in
\* mode 'always' and either in mode 'mixed', and when shift is true and the
\* shifted resolution yields nothing it emits the unshifted resolution.
C17_RenderPerKey ==
  ren_rendered # None =>
    /\ Len(ren_rendered) = Len(ren_keys)
    /\ \A i \in DOMAIN ren_keys :
         IF ren_keys[i] = KEY_SPACE THEN ren_rendered[i] = <<Sp>>
         ELSE \E shift \in ShiftStates(ren_mode) :
                ren_rendered[i] =
                  AsEmitted(IF shift /\ resolver[<<ren_keys[i], TRUE>>] = None
                            THEN resolver[<<ren_keys[i], FALSE>>]
                            ELSE resolver[<<ren_keys[i], shift>>])

C17_Witness ==
  /\ resolver = LayoutNoShift
  /\ ren_mode = "always"
  /\ ren_keys = <<"KEY_A", KEY_SPACE, "KEY_J">>
  /\ ren_rendered # None
  /\ ren_rendered = << <<"a">>, <<Sp>>, <<"J">> >>

\* The space key without a symbol is still rendered as a space.
C17_WitnessSpace ==
  /\ resolver = LayoutHole
  /\ ren_keys = <<"KEY_J", KEY_SPACE, "KEY_K">>
  /\ ren_rendered # None
  /\ ren_rendered = << <<"j">>, <<Sp>>, <<"k">> >>

====
